---- MODULE Spec2Model ----
(***************************************************************************)
(* Model of the wallet analysis pipeline: PriceService (price_service.py), *)
(* MetricsCalculator (metrics_calculator.py) and SolanaSwapAnalyzer        *)
(* (get_parsed_transactions.py).                                           *)
(*                                                                         *)
(* Numbers: Decimal and float prices and amounts are modelled by integers; *)
(* the input sets are chosen so that every Decimal division of the model   *)
(* is exact.  Python's None is the number -1, which is no price, amount   *)
(* or timestamp of the model.                                              *)
(***************************************************************************)
EXTENDS Integers, Sequences, FiniteSets, TLC

VARIABLES
    \* ---- PriceService ----
    price_cache,     \* self.price_cache: [token_sol, token_usd, sol_price, dt]
    cache_file,      \* SOL_PRICE_CACHE_FILE: absent, corrupt, or valid with a content
    last,            \* observation of the last PriceService call
    \* ---- MetricsCalculator ----
    token_metrics,   \* self.token_metrics, in insertion order
    mc_pc,           \* position inside calculate_metrics
    mc_count,        \* swaps processed by the running calculate_metrics
    mc_result,       \* what calculate_metrics returned (or that it raised)
    applied,         \* history: per symbol, the legs whose value resolved
    last_swap,       \* observation of the last process_swap call
    \* ---- SolanaSwapAnalyzer.analyze_wallet ----
    an_pc,           \* position inside analyze_wallet
    has_model,       \* self.model is not None
    signatures,      \* the listed signatures
    idx,             \* signatures consumed by the for loop
    all_transactions,\* all_transactions
    early_detection_triggered, \* early_detection_triggered
    fetch_log,       \* history: signatures passed to getTransaction, in call order
    failed,          \* history: signatures whose getTransaction failed
    early,           \* history: the early-detection evaluation
    final,           \* history: the final classification
    an_result,       \* the value analyze_wallet returned
    swaps_data,      \* swaps_data of analyze_wallet
    fetched,         \* the transactions of all_transactions, by signature
    \* ---- concurrent instances, and single calls of a function ----
    instances,       \* self.price_cache of each concurrent PriceService
    call,            \* the arguments of the call under study
    ret,             \* what the call returned
    \* ---- WalletProcessor, and the clock of the RPC throttle ----
    processing,      \* where process_address stands and what it stored
    rpc              \* time.time(), self.last_request_time, the requests sent

price_vars == <<price_cache, cache_file, last>>
mc_vars == <<token_metrics, mc_pc, mc_count, mc_result, applied, last_swap>>
an_vars == <<an_pc, has_model, signatures, idx, all_transactions,
             early_detection_triggered, fetch_log, failed, early, final,
             an_result, swaps_data, fetched>>
vars == <<price_cache, cache_file, last,
          token_metrics, mc_pc, mc_count, mc_result, applied, last_swap,
          an_pc, has_model, signatures, idx, all_transactions,
          early_detection_triggered, fetch_log, failed, early, final,
          an_result, swaps_data, fetched, instances, call, ret,
          processing, rpc>>
aux_vars == <<instances, call, ret, processing, rpc>>

None == -1

(***************************************************************************)
(* Configuration (config.py)                                               *)
(***************************************************************************)
WSOL == "So11111111111111111111111111111111111111112"
SOL == "So11111111111111111111111111111111111111111"
SOLANA_ADDRESSES == {WSOL, SOL}
MAX_RETRIES == 3
\* probabilities are in hundredths: 0.75 is 75
BOT_THRESHOLD == 75
HIGH_PROBABILITY_BOT_THRESHOLD == 95
EARLY_DETECTION_COUNT == 80

(***************************************************************************)
(* Input sets of the model                                                 *)
(***************************************************************************)
Hour == 3600
Timestamps == {2 * Hour, 3 * Hour}
Now == 5 * Hour
Tokens == {"TOKX"}
SolPrices == {100, 150}
PumpPrices == {1}
JupPrices == {300}

\* What one lookup meets: in the price-history source the window `k` hours
\* before the requested hour answers with data (closing price `close`) or
\* with a remote failure ("error"), every other window is empty; and the
\* cache file can be opened for writing (`writable`) or open raises (a
\* missing directory, a read-only file).
YfOracles == [k : 0..(MAX_RETRIES + 1), status : {"data", "error"},
              close : SolPrices, writable : BOOLEAN]
\* What the token sources answer during one lookup: the candlestick source,
\* the quote source at its first and at its second call.
TokenOracles == [pump : PumpPrices \cup {None},
                 jup : JupPrices \cup {None},
                 jup2 : JupPrices \cup {None}]

(***************************************************************************)
(* Python dicts as functions with a finite domain                          *)
(***************************************************************************)
EmptyDict == << >>
Put(d, k, v) == [x \in (DOMAIN d) \cup {k} |-> IF x = k THEN v ELSE d[x]]
Has(d, k) == k \in DOMAIN d

(***************************************************************************)
(* PriceService                                                            *)
(***************************************************************************)
\* __init__: the three named sub-dicts; dt holds the entries get_sol_price
\* writes at the top level of the same dict, keyed by the ISO string.
NewCache == [token_sol |-> EmptyDict, token_usd |-> EmptyDict,
             sol_price |-> EmptyDict, dt |-> EmptyDict]

\* datetime.fromtimestamp(timestamp).isoformat()
DtStr(timestamp) == <<"iso", timestamp>>

\* f"{token}_{timestamp}"
CacheKey(token, timestamp) == <<token, timestamp>>

\* _load_cache: price_cache.update(json.load(f)); a missing or unreadable
\* file leaves the initial cache.
LoadCache(file) ==
    IF file.state = "valid" THEN file.content ELSE NewCache

\* json.dump(self.price_cache, f) into the file that open(..., 'w') has
\* truncated: the dict is written key by key.  token_sol and token_usd hold
\* Decimal values, which json cannot encode: the dump stops at the first of
\* them, the exception is logged, and the file is left with the text written
\* so far.
DumpCache(cache) ==
    IF cache.token_sol = EmptyDict /\ cache.token_usd = EmptyDict
    THEN [state |-> "valid", content |-> cache]
    ELSE [state |-> "corrupt", content |-> NewCache]

\* _save_cache: open(..., 'w'), then the dump.  When open raises, the
\* exception is logged ("Error saving cache"), the file stays as it was and
\* the caller goes on.
SaveCache(file, cache, writable) ==
    IF writable THEN DumpCache(cache) ELSE file

\* yf.download for the window starting i hours before the requested time
YfDownload(yf, i) ==
    IF i = yf.k THEN [status |-> yf.status, close |-> yf.close]
    ELSE [status |-> "empty", close |-> None]

\* The downloads of get_sol_price from the one i hours back on: the first
\* one (i = 0) and the for loop over range(1, MAX_RETRIES).  A download with
\* data is stored and saved, an exception ends the lookup.
RECURSIVE SolRetryLoop(_, _, _, _, _)
SolRetryLoop(cache, file, dt_str, yf, i) ==
    IF i >= MAX_RETRIES
    THEN [cache |-> cache, file |-> file, result |-> None, calls |-> i]
    ELSE IF YfDownload(yf, i).status = "error"
    THEN [cache |-> cache, file |-> file, result |-> None, calls |-> i + 1]
    ELSE IF YfDownload(yf, i).status # "empty"
    THEN [cache |-> [cache EXCEPT !.dt = Put(@, dt_str, YfDownload(yf, i).close)],
          file |-> SaveCache(file,
                             [cache EXCEPT
                                !.dt = Put(@, dt_str, YfDownload(yf, i).close)],
                             yf.writable),
          result |-> YfDownload(yf, i).close, calls |-> i + 1]
    ELSE SolRetryLoop(cache, file, dt_str, yf, i + 1)

\* get_sol_price(timestamp)
GetSolPriceOp(cache, file, timestamp, yf) ==
    IF Has(cache.dt, DtStr(timestamp))
    THEN [cache |-> cache, file |-> file,
          result |-> cache.dt[DtStr(timestamp)], calls |-> 0]
    ELSE SolRetryLoop(cache, file, DtStr(timestamp), yf, 0)

\* get_token_price_in_sol, lines 120-127: the Jupiter price converted with
\* the result s of get_sol_price
JupiterPriceInSol(s, cache_key, jupiter_price) ==
    IF s.result # None /\ s.result # 0
    \* jupiter_price / sol_price; JupPrices are multiples of every price of
    \* SolPrices, so the quotient is exact
    THEN [cache |-> [s.cache EXCEPT
                       !.token_sol = Put(@, cache_key,
                                         jupiter_price \div s.result)],
          file |-> s.file, result |-> jupiter_price \div s.result,
          calls |-> 2 + s.calls]
    ELSE [cache |-> s.cache, file |-> s.file, result |-> None,
          calls |-> 2 + s.calls]

\* get_token_price_in_sol asking the quote source before the candlesticks
GetTokenPriceInSolOpQuoteFirst(cache, file, token, timestamp, o, yf) ==
    IF Has(cache.token_sol, CacheKey(token, timestamp))
    THEN [cache |-> cache, file |-> file,
          result |-> cache.token_sol[CacheKey(token, timestamp)], calls |-> 0]
    ELSE IF o.jup # None
    THEN JupiterPriceInSol(GetSolPriceOp(cache, file, timestamp, yf),
                           CacheKey(token, timestamp), o.jup)
    ELSE IF o.pump # None
    THEN [cache |-> [cache EXCEPT
                       !.token_sol = Put(@, CacheKey(token, timestamp), o.pump)],
          file |-> file, result |-> o.pump, calls |-> 2]
    ELSE [cache |-> cache, file |-> file, result |-> None, calls |-> 2]

\* get_token_price_in_sol(token, timestamp)
GetTokenPriceInSolOp(cache, file, token, timestamp, o, yf) ==
    IF Has(cache.token_sol, CacheKey(token, timestamp))
    THEN [cache |-> cache, file |-> file,
          result |-> cache.token_sol[CacheKey(token, timestamp)], calls |-> 0]
    ELSE IF o.pump # None
    THEN [cache |-> [cache EXCEPT
                       !.token_sol = Put(@, CacheKey(token, timestamp), o.pump)],
          file |-> file, result |-> o.pump, calls |-> 1]
    ELSE IF o.jup # None
    THEN JupiterPriceInSol(GetSolPriceOp(cache, file, timestamp, yf),
                           CacheKey(token, timestamp), o.jup)
    ELSE [cache |-> cache, file |-> file, result |-> None, calls |-> 2]

\* get_token_price_in_usd remembering a failed lookup as price 0
GetTokenPriceInUsdOpNegative(cache, file, token, timestamp, jup) ==
    LET cache_key == CacheKey(token, timestamp)
    IN  IF Has(cache.token_usd, cache_key)
        THEN [cache |-> cache, file |-> file,
              result |-> cache.token_usd[cache_key], calls |-> 0]
        ELSE IF jup # None
        THEN [cache |-> [cache EXCEPT !.token_usd = Put(@, cache_key, jup)],
              file |-> file, result |-> jup, calls |-> 1]
        ELSE [cache |-> [cache EXCEPT !.token_usd = Put(@, cache_key, 0)],
              file |-> file, result |-> None, calls |-> 1]

\* get_token_price_in_usd without the cache lookup
GetTokenPriceInUsdOpRefetch(cache, file, token, timestamp, jup) ==
    LET cache_key == CacheKey(token, timestamp)
    IN  IF jup # None
        THEN [cache |-> [cache EXCEPT !.token_usd = Put(@, cache_key, jup)],
              file |-> file, result |-> jup, calls |-> 1]
        ELSE [cache |-> cache, file |-> file, result |-> None, calls |-> 1]

\* get_token_price_in_usd(token, timestamp)
GetTokenPriceInUsdOp(cache, file, token, timestamp, jup) ==
    LET cache_key == CacheKey(token, timestamp)
    IN  IF Has(cache.token_usd, cache_key)
        THEN [cache |-> cache, file |-> file,
              result |-> cache.token_usd[cache_key], calls |-> 0]
        ELSE IF jup # None
        THEN [cache |-> [cache EXCEPT !.token_usd = Put(@, cache_key, jup)],
              file |-> file, result |-> jup, calls |-> 1]
        ELSE [cache |-> cache, file |-> file, result |-> None, calls |-> 1]

NoCall == [op |-> "none", token |-> "", ts |-> 0, cached |-> None,
           result |-> None, calls |-> 0, dt_before |-> EmptyDict,
           file_before |-> EmptyDict]

\* No concurrent instance, no call under study
NoCallArgs == [op |-> "none"]
NoRet == [op |-> "none"]
\* process_address not called
NoProcessing == [status |-> "none"]
\* no request sent yet: self.last_request_time = 0 (line 23)
NoRpc == [clock |-> 0, last_request_time |-> 0, sent |-> << >>]
AuxIdle ==
    /\ instances = << >>
    /\ call = NoCallArgs
    /\ ret = NoRet
    /\ processing = NoProcessing
    /\ rpc = NoRpc

PriceInit ==
    /\ price_cache = NewCache
    /\ cache_file = [state |-> "absent", content |-> NewCache]
    /\ last = NoCall

\* What the cache held for the key before a call, None when it held nothing
CachedSol(cache, ts) ==
    IF DtStr(ts) \in DOMAIN cache.dt THEN cache.dt[DtStr(ts)] ELSE None
CachedTokenSol(cache, token, ts) ==
    IF <<token, ts>> \in DOMAIN cache.token_sol
    THEN cache.token_sol[<<token, ts>>] ELSE None
CachedTokenUsd(cache, token, ts) ==
    IF <<token, ts>> \in DOMAIN cache.token_usd
    THEN cache.token_usd[<<token, ts>>] ELSE None

GetSolPrice(ts, yf) ==
    LET r == GetSolPriceOp(price_cache, cache_file, ts, yf)
    IN  /\ price_cache' = r.cache
        /\ cache_file' = r.file
        /\ last' = [op |-> "get_sol_price", token |-> "", ts |-> ts,
                    cached |-> CachedSol(price_cache, ts),
                    result |-> r.result, calls |-> r.calls,
                    dt_before |-> price_cache.dt,
                    file_before |-> cache_file.content.dt]

GetTokenPriceInSol(token, ts, o, yf) ==
    LET r == GetTokenPriceInSolOp(price_cache, cache_file, token, ts, o, yf)
    IN  /\ price_cache' = r.cache
        /\ cache_file' = r.file
        /\ last' = [op |-> "get_token_price_in_sol", token |-> token, ts |-> ts,
                    cached |-> CachedTokenSol(price_cache, token, ts),
                    result |-> r.result, calls |-> r.calls,
                    dt_before |-> price_cache.dt,
                    file_before |-> cache_file.content.dt]

GetTokenPriceInUsd(token, ts, jup) ==
    LET r == GetTokenPriceInUsdOp(price_cache, cache_file, token, ts, jup)
    IN  /\ price_cache' = r.cache
        /\ cache_file' = r.file
        /\ last' = [op |-> "get_token_price_in_usd", token |-> token, ts |-> ts,
                    cached |-> CachedTokenUsd(price_cache, token, ts),
                    result |-> r.result, calls |-> r.calls,
                    dt_before |-> price_cache.dt,
                    file_before |-> cache_file.content.dt]

\* A new process: PriceService.__init__ builds the cache from the file.
Restart ==
    /\ price_cache' = LoadCache(cache_file)
    /\ cache_file' = cache_file
    /\ last' = [NoCall EXCEPT !.op = "restart"]

(***************************************************************************)
(* MetricsCalculator                                                       *)
(***************************************************************************)
\* TokenMetrics(first_trade_date=timestamp, last_trade_date=timestamp)
TokenMetrics(symbol, timestamp) ==
    [symbol |-> symbol, realized_pnl |-> 0, unrealized_pnl |-> 0,
     usd_invested |-> 0, usd_withdrawn |-> 0, balance |-> 0,
     trade_count |-> 0, first_trade_date |-> timestamp,
     last_trade_date |-> timestamp]

SymbolsOf(tm) == {tm[i].symbol : i \in 1..Len(tm)}
IndexOf(tm, symbol) == CHOOSE i \in 1..Len(tm) : tm[i].symbol = symbol
\* The entries of a symbol: one entry, or none
EntryOf(tm, symbol) == {tm[i] : i \in {j \in 1..Len(tm) : tm[j].symbol = symbol}}

\* _calculate_token_value, lines 113-118: the value from the result u of
\* get_token_price_in_usd
TokenValueInUsd(u, amount) ==
    [cache |-> u.cache, file |-> u.file,
     value |-> IF u.result # None THEN amount * u.result ELSE None]

\* _calculate_token_value, lines 107-118: the value from the result t of
\* get_token_price_in_sol, else from the direct USD price
TokenValueInSol(t, sol_price, symbol, amount, timestamp, o) ==
    IF t.result # None
    THEN [cache |-> t.cache, file |-> t.file,
          value |-> amount * t.result * sol_price]
    ELSE TokenValueInUsd(
             GetTokenPriceInUsdOp(t.cache, t.file, symbol, timestamp, o.jup2),
             amount)

\* _calculate_token_value, lines 93-118: after get_sol_price answered s
TokenValueWithSol(s, symbol, amount, timestamp, o, yf) ==
    IF symbol \in SOLANA_ADDRESSES
    THEN [cache |-> s.cache, file |-> s.file,
          value |-> IF s.result = None THEN None ELSE amount * s.result]
    ELSE IF s.result = None
    THEN [cache |-> s.cache, file |-> s.file, value |-> None]
    ELSE TokenValueInSol(
             GetTokenPriceInSolOp(s.cache, s.file, symbol, timestamp, o, yf),
             s.result, symbol, amount, timestamp, o)

\* _calculate_token_value(symbol, amount, timestamp)
CalculateTokenValueOp(cache, file, symbol, amount, timestamp, o, yf) ==
    TokenValueWithSol(GetSolPriceOp(cache, file, timestamp, yf), symbol, amount,
                      timestamp, o, yf)

\* The ledger update with the balance moved the other way
ApplyLegSwapped(metrics, is_input, amount, usd_value) ==
    IF is_input
    THEN [metrics EXCEPT !.usd_invested = @ + usd_value,
                         !.balance = @ + amount]
    ELSE [metrics EXCEPT !.usd_withdrawn = @ + usd_value,
                         !.balance = @ - amount]

\* The ledger update with the balance growing on both sides
ApplyLegAdding(metrics, is_input, amount, usd_value) ==
    IF is_input
    THEN [metrics EXCEPT !.usd_invested = @ + usd_value,
                         !.balance = @ + amount]
    ELSE [metrics EXCEPT !.usd_withdrawn = @ + usd_value,
                         !.balance = @ + amount]

\* The ledger update at the end of _process_token_swap (lines 71-76)
ApplyLeg(metrics, is_input, amount, usd_value) ==
    IF is_input
    THEN [metrics EXCEPT !.usd_invested = @ + usd_value,
                         !.balance = @ - amount]
    ELSE [metrics EXCEPT !.usd_withdrawn = @ + usd_value,
                         !.balance = @ + amount]

\* The bookkeeping at the head of _process_token_swap (lines 53-61)
TouchEntry(tm, symbol, timestamp) ==
    LET tm1 == IF symbol \in SymbolsOf(tm) THEN tm
               ELSE Append(tm, TokenMetrics(symbol, timestamp))
        i == IndexOf(tm1, symbol)
    IN  [tm1 EXCEPT ![i].last_trade_date = timestamp,
                    ![i].trade_count = @ + 1]

\* _process_token_swap, lines 67-76: a leg whose value v is None returns,
\* any other is applied to the entry; the leg is logged
ApplyValue(tm2, legs, token_data, is_input, v) ==
    [tm |-> IF v.value = None THEN tm2
            ELSE [tm2 EXCEPT ![IndexOf(tm2, token_data.symbol)] =
                      ApplyLeg(@, is_input, token_data.amount, v.value)],
     cache |-> v.cache, file |-> v.file,
     legs |-> Append(legs, [symbol |-> token_data.symbol,
                            is_input |-> is_input,
                            amount |-> token_data.amount,
                            value |-> v.value])]

\* _process_token_swap(token_data, is_input, timestamp, sol_price); st holds
\* the ledger, the price cache, the cache file and the log of the legs seen.
ProcessTokenSwapOp(st, token_data, is_input, timestamp, sol_price, o, yf) ==
    ApplyValue(TouchEntry(st.tm, token_data.symbol, timestamp), st.legs,
               token_data, is_input,
               IF token_data.symbol \in SOLANA_ADDRESSES
               THEN [cache |-> st.cache, file |-> st.file,
                     value |-> token_data.amount * sol_price]
               ELSE CalculateTokenValueOp(st.cache, st.file, token_data.symbol,
                                          token_data.amount, timestamp, o, yf))

\* for token in tokens: self._process_token_swap(token, is_input, ...)
RECURSIVE ProcessLegs(_, _, _, _, _, _, _)
ProcessLegs(st, tokens, is_input, timestamp, sol_price, o, yf) ==
    IF tokens = << >> THEN st
    ELSE ProcessLegs(ProcessTokenSwapOp(st, Head(tokens), is_input, timestamp,
                                        sol_price, o, yf),
                     Tail(tokens), is_input, timestamp, sol_price, o, yf)

\* process_swap, lines 136-147: after get_sol_price answered s
ProcessSwapWithSol(tm, s, swap, o, yf) ==
    IF s.result = None
    THEN [tm |-> tm, cache |-> s.cache, file |-> s.file, legs |-> << >>,
          sol_price |-> None]
    ELSE ProcessLegs(
             ProcessLegs([tm |-> tm, cache |-> s.cache, file |-> s.file,
                          legs |-> << >>],
                         swap.tokens_in, TRUE, swap.timestamp, s.result, o, yf),
             swap.tokens_out, FALSE, swap.timestamp, s.result, o, yf)
         @@ [sol_price |-> s.result]

\* process_swap(swap)
ProcessSwapOp(tm, cache, file, swap, o, yf) ==
    IF swap.timestamp = None \/ swap.timestamp = 0
    THEN [tm |-> tm, cache |-> cache, file |-> file, legs |-> << >>,
          sol_price |-> None]
    ELSE ProcessSwapWithSol(tm, GetSolPriceOp(cache, file, swap.timestamp, yf),
                            swap, o, yf)

\* calculate_realized_pnl without the branch for a negative balance
RealizedPnlUnguarded(metrics) ==
    IF metrics.usd_invested > 0 /\ metrics.usd_withdrawn = 0
       /\ metrics.balance > 0
    THEN 0
    ELSE metrics.usd_withdrawn - metrics.usd_invested

\* calculate_realized_pnl, for one entry
RealizedPnl(metrics) ==
    IF metrics.usd_invested > 0 /\ metrics.usd_withdrawn = 0
       /\ metrics.balance > 0
    THEN 0
    ELSE IF metrics.balance < 0
    THEN 0
    ELSE metrics.usd_withdrawn - metrics.usd_invested

\* calculate_realized_pnl
CalculateRealizedPnl(tm) ==
    [i \in 1..Len(tm) |-> [tm[i] EXCEPT !.realized_pnl = RealizedPnl(tm[i])]]

\* calculate_unrealized_pnl, lines 160-169 for a native entry: s is the
\* result of get_sol_price(current_time)
NativeUnrealized(tm, i, s) ==
    [tm |-> [tm EXCEPT ![i].unrealized_pnl =
                 IF s.result # None THEN tm[i].balance * s.result ELSE 0],
     cache |-> s.cache, file |-> s.file]

\* calculate_unrealized_pnl: the loop over token_metrics.items() from entry i
\* on, st holding the ledger, the cache and the file.  PriceService defines
\* no get_token_price, so the call of line 163 raises AttributeError, which
\* nothing in MetricsCalculator catches.
RECURSIVE UnrealizedLoop(_, _, _, _)
UnrealizedLoop(st, i, current_time, yf) ==
    IF i > Len(st.tm)
    THEN [tm |-> st.tm, cache |-> st.cache, file |-> st.file, raised |-> FALSE]
    ELSE IF st.tm[i].balance <= 0
    THEN UnrealizedLoop([st EXCEPT !.tm[i].unrealized_pnl = 0], i + 1,
                        current_time, yf)
    ELSE IF st.tm[i].symbol \in SOLANA_ADDRESSES
    THEN UnrealizedLoop(
             NativeUnrealized(st.tm, i, GetSolPriceOp(st.cache, st.file,
                                                      current_time, yf)),
             i + 1, current_time, yf)
    ELSE [tm |-> st.tm, cache |-> st.cache, file |-> st.file, raised |-> TRUE]

\* calculate_unrealized_pnl
CalculateUnrealizedPnl(tm, cache, file, current_time, yf) ==
    UnrealizedLoop([tm |-> tm, cache |-> cache, file |-> file], 1,
                   current_time, yf)

RECURSIVE SumOver(_, _, _)
SumOver(tm, i, field) ==
    IF i > Len(tm) THEN 0 ELSE tm[i][field] + SumOver(tm, i + 1, field)

\* (metrics.usd_withdrawn + metrics.unrealized_pnl) > metrics.usd_invested
IsWinning(metrics) ==
    metrics.usd_withdrawn + metrics.unrealized_pnl > metrics.usd_invested

\* The aggregation with the gross profit summed per token as
\* usd_withdrawn + unrealized_pnl - usd_invested
TotalMetricsCashFlow(tm) ==
    LET total_realized_pnl == SumOver(tm, 1, "realized_pnl")
        total_unrealized_pnl == SumOver(tm, 1, "unrealized_pnl")
        total_invested == SumOver(tm, 1, "usd_invested")
        winning_trades == Cardinality({i \in 1..Len(tm) : IsWinning(tm[i])})
        gross_profit == SumOver(tm, 1, "usd_withdrawn") + total_unrealized_pnl
                            - total_invested
    IN  [total_realized_pnl |-> total_realized_pnl,
         total_unrealized_pnl |-> total_unrealized_pnl,
         gross_profit |-> gross_profit,
         total_invested |-> total_invested,
         total_trades |-> SumOver(tm, 1, "trade_count"),
         total_volume |-> total_invested + SumOver(tm, 1, "usd_withdrawn"),
         winning_trades |-> winning_trades,
         total_token_traded |-> Len(tm),
         win_rate |-> IF Len(tm) > 0
                      THEN [num |-> winning_trades * 100, den |-> Len(tm)]
                      ELSE [num |-> 0, den |-> 1],
         total_roi |-> IF total_invested > 0
                       THEN [num |-> gross_profit * 100, den |-> total_invested]
                       ELSE [num |-> 0, den |-> 1]]

\* The aggregation of calculate_metrics (lines 204-255); a ratio is the pair
\* of its numerator and denominator.
TotalMetrics(tm) ==
    LET total_realized_pnl == SumOver(tm, 1, "realized_pnl")
        total_unrealized_pnl == SumOver(tm, 1, "unrealized_pnl")
        total_invested == SumOver(tm, 1, "usd_invested")
        winning_trades == Cardinality({i \in 1..Len(tm) : IsWinning(tm[i])})
        gross_profit == total_realized_pnl + total_unrealized_pnl
    IN  [total_realized_pnl |-> total_realized_pnl,
         total_unrealized_pnl |-> total_unrealized_pnl,
         gross_profit |-> gross_profit,
         total_invested |-> total_invested,
         total_trades |-> SumOver(tm, 1, "trade_count"),
         total_volume |-> total_invested + SumOver(tm, 1, "usd_withdrawn"),
         winning_trades |-> winning_trades,
         total_token_traded |-> Len(tm),
         win_rate |-> IF Len(tm) > 0
                      THEN [num |-> winning_trades * 100, den |-> Len(tm)]
                      ELSE [num |-> 0, den |-> 1],
         total_roi |-> IF total_invested > 0
                       THEN [num |-> gross_profit * 100, den |-> total_invested]
                       ELSE [num |-> 0, den |-> 1]]

(***************************************************************************)
(* calculate_metrics as a process: clear, one process_swap per swap of the *)
(* list, then the PnL passes and the aggregation.                          *)
(***************************************************************************)
MaxSwaps == 2
LegSymbols == {WSOL, "TOKX"}
Legs == {[symbol |-> WSOL, amount |-> 10], [symbol |-> "TOKX", amount |-> 2]}
LegLists == {<< >>} \cup {<<l>> : l \in Legs}
\* the block times of the swaps; None is a swap without block time
SwapTimestamps == {2 * Hour, None}
Swaps == [timestamp : SwapTimestamps, tokens_in : LegLists,
          tokens_out : LegLists]
\* The answers of the sources during one process_swap call
PnlYfOracles == {y \in YfOracles : y.k = 0 /\ y.close = 150}
PnlTokenOracles ==
    {o \in TokenOracles : /\ o.pump # None => o.jup = None /\ o.jup2 = None
                          /\ o.jup # None => o.jup2 = o.jup}

NoApplied == [s \in LegSymbols |-> [amt_out |-> 0, amt_in |-> 0, vin |-> 0,
                                    vout |-> 0]]
NoSwap == [called |-> FALSE, swap |-> [timestamp |-> None, tokens_in |-> << >>,
                                       tokens_out |-> << >>],
           o |-> [pump |-> None, jup |-> None, jup2 |-> None],
           yf |-> [k |-> 0, status |-> "error", close |-> 150,
                   writable |-> TRUE],
           before |-> << >>, cache |-> NewCache, legs |-> << >>,
           sol_price |-> None]
NoResult == [status |-> "none", metrics |-> TotalMetrics(<< >>)]

\* History: the legs of `legs` whose value resolved, added to `acc`
RECURSIVE Account(_, _)
Account(acc, legs) ==
    IF legs = << >> THEN acc
    ELSE LET l == Head(legs)
             a == acc[l.symbol]
             b == IF l.value = None THEN a
                  ELSE IF l.is_input
                  THEN [a EXCEPT !.amt_in = @ + l.amount, !.vin = @ + l.value]
                  ELSE [a EXCEPT !.amt_out = @ + l.amount, !.vout = @ + l.value]
         IN  Account([acc EXCEPT ![l.symbol] = b], Tail(legs))

McInit ==
    /\ token_metrics = << >>
    /\ mc_pc = "idle"
    /\ mc_count = 0
    /\ mc_result = NoResult
    /\ applied = NoApplied
    /\ last_swap = NoSwap

\* calculate_metrics, line 193: self.token_metrics.clear()
CalcBegin ==
    /\ mc_pc = "idle"
    /\ mc_result.status = "none"
    /\ token_metrics' = << >>
    /\ mc_pc' = "swaps"
    /\ mc_count' = 0
    /\ mc_result' = NoResult
    /\ applied' = NoApplied
    /\ last_swap' = NoSwap
    /\ UNCHANGED price_vars

\* calculate_metrics, lines 196-198: self.process_swap(swap)
ProcessSwap(swap, o, yf) ==
    /\ mc_pc = "swaps"
    /\ mc_count < MaxSwaps
    /\ LET r == ProcessSwapOp(token_metrics, price_cache, cache_file, swap,
                              o, yf)
       IN  /\ token_metrics' = r.tm
           /\ price_cache' = r.cache
           /\ cache_file' = r.file
           /\ applied' = Account(applied, r.legs)
           /\ last_swap' = [called |-> TRUE, swap |-> swap, o |-> o, yf |-> yf,
                            before |-> token_metrics, cache |-> price_cache,
                            legs |-> r.legs, sol_price |-> r.sol_price]
    /\ mc_count' = mc_count + 1
    /\ UNCHANGED <<mc_pc, mc_result, last>>

\* calculate_metrics, lines 200-255
CalcFinish(yf) ==
    /\ mc_pc = "swaps"
    /\ LET u == CalculateUnrealizedPnl(CalculateRealizedPnl(token_metrics),
                                       price_cache, cache_file, Now, yf)
       IN  /\ token_metrics' = u.tm
           /\ price_cache' = u.cache
           /\ cache_file' = u.file
           /\ mc_result' = IF u.raised
                           THEN [status |-> "raised",
                                 metrics |-> TotalMetrics(<< >>)]
                           ELSE [status |-> "returned",
                                 metrics |-> TotalMetrics(u.tm)]
    /\ mc_pc' = "idle"
    /\ UNCHANGED <<mc_count, applied, last_swap, last>>

(***************************************************************************)
(* The functions SolanaSwapAnalyzer applies to one fetched transaction     *)
(***************************************************************************)
\* Config.SWAP_PROGRAMS, in the order of the dict
SWAP_PROGRAMS ==
    <<[id |-> "JUP6LkbZbjS1jKKwapdHNy74zcZ3tLUZoi5QNyVTaV4",
       protocol |-> "Jupiter"],
      [id |-> "whirLbMiicVdio4qvUfM5KAg6Ct8VwpYzGff3uctyCc",
       protocol |-> "Orca"],
      [id |-> "9W959DqEETiGZocYWCQPaJ6sBmUzgfxXfqGeTEdp3aQP",
       protocol |-> "Raydium"],
      [id |-> "675kPX9MHTjS2zt1qfr1NYHuzeLXfQM9H24wFSUt1Mp8",
       protocol |-> "Raydium V4"],
      [id |-> "SwaPpA9LAaLfeLi3a68M4DjnLqgtticKg6CnyNwgAC8",
       protocol |-> "Raydium Legacy"],
      [id |-> "DjVE6JNiYqPL2QXyCUUh8rNjHrbz9hXHNYt99MQ59qw1",
       protocol |-> "Orca Whirlpool"]>>

\* program_id in self.config.SWAP_PROGRAMS
InRegistry(program_id) ==
    \E j \in DOMAIN SWAP_PROGRAMS : SWAP_PROGRAMS[j].id = program_id
\* self.config.SWAP_PROGRAMS[program_id]
ProtocolOf(program_id) ==
    SWAP_PROGRAMS[CHOOSE j \in DOMAIN SWAP_PROGRAMS :
                      SWAP_PROGRAMS[j].id = program_id].protocol

\* `program_id in log`: the id is a substring of the log line, wherever it
\* starts and whatever comes before and after it
InLog(program_id, log) ==
    \E i \in 1..(Len(log) - Len(program_id) + 1) :
        SubSeq(log, i, i + Len(program_id) - 1) = program_id

\* The smallest element of a non-empty set of numbers
Min(S) == CHOOSE x \in S : \A y \in S : x <= y

\* _is_swap_transaction with the two scans exchanged: logs before instructions
IsSwapTransactionLogsFirst(transaction) ==
    LET instructions == transaction.instructions
        logs == transaction.logMessages
        by_instruction == {i \in DOMAIN instructions :
                              InRegistry(instructions[i])}
        by_log == {j \in DOMAIN SWAP_PROGRAMS :
                      \E l \in DOMAIN logs : InLog(SWAP_PROGRAMS[j].id, logs[l])}
    IN  IF logs # << >> /\ by_log # {}
        THEN [is_swap |-> TRUE, protocol |-> SWAP_PROGRAMS[Min(by_log)].protocol]
        ELSE IF by_instruction # {}
        THEN [is_swap |-> TRUE,
              protocol |-> ProtocolOf(instructions[Min(by_instruction)])]
        ELSE [is_swap |-> FALSE, protocol |-> ""]

\* _is_swap_transaction(transaction)
IsSwapTransaction(transaction) ==
    LET instructions == transaction.instructions
        logs == transaction.logMessages
        by_instruction == {i \in DOMAIN instructions :
                              InRegistry(instructions[i])}
        by_log == {j \in DOMAIN SWAP_PROGRAMS :
                      \E l \in DOMAIN logs : InLog(SWAP_PROGRAMS[j].id, logs[l])}
    IN  IF by_instruction # {}
        THEN [is_swap |-> TRUE,
              protocol |-> ProtocolOf(instructions[Min(by_instruction)])]
        ELSE IF logs # << >> /\ by_log # {}
        THEN [is_swap |-> TRUE, protocol |-> SWAP_PROGRAMS[Min(by_log)].protocol]
        ELSE [is_swap |-> FALSE, protocol |-> ""]

\* A mint is the pair of its first 8 characters and the rest; a balance of
\* preTokenBalances / postTokenBalances is [mint, uiAmount, symbol], with
\* amounts counted in millionths of a token, uiAmount = None when the JSON
\* holds null and symbol = "" when uiTokenAmount holds none.
Prefix8(mint) == mint[1]
NoMint == <<"", "">>
\* the threshold 0.000001 of abs(diff), in millionths
NOISE == 1

\* float(token_data.get('uiAmount', 0) or 0)
AmountOf(balance) == IF balance.uiAmount = None THEN 0 ELSE balance.uiAmount
\* token_data.get('symbol') or mint[:8]
SymbolOf(balance) ==
    IF balance.symbol = "" THEN Prefix8(balance.mint) ELSE balance.symbol

\* The loops filling pre_balances and post_balances: a dict keyed by mint,
\* a later balance of the same mint replacing the earlier one
RECURSIVE BuildBalances(_, _)
BuildBalances(d, balances) ==
    IF balances = << >> THEN d
    ELSE IF Head(balances).mint = NoMint
    THEN BuildBalances(d, Tail(balances))
    ELSE BuildBalances(Put(d, Head(balances).mint,
                           [amount |-> AmountOf(Head(balances)),
                            symbol |-> SymbolOf(Head(balances))]),
                       Tail(balances))

\* pre_balances.get(mint, {'amount': 0})['amount']
AmountIn(balances, mint) ==
    IF Has(balances, mint) THEN balances[mint].amount ELSE 0
\* post_balances.get(mint, {'symbol': mint[:8]})['symbol']
SymbolIn(post_balances, mint) ==
    IF Has(post_balances, mint) THEN post_balances[mint].symbol
    ELSE Prefix8(mint)

Abs(x) == IF x < 0 THEN 0 - x ELSE x

\* abs(diff) > 0.000001 for diff = post_amount - pre_amount, as the floats
\* decide it.  The floats nearest to two amounts one millionth apart can
\* differ by more than the float nearest to 0.000001: among the amounts up
\* to 7 millionths, 0.000003 - 0.000002 is 1.0000000000000002e-06 and
\* 0.000005 - 0.000004 is 1.0000000000000006e-06, and the same with the
\* sign changed; for every other pair the floats decide as the exact
\* difference does.
AboveNoise(pre_amount, post_amount) ==
    \/ Abs(post_amount - pre_amount) > NOISE
    \/ {pre_amount, post_amount} \in {{2, 3}, {4, 5}}

\* One turn of `for mint in all_mints` on the lists built so far; the amount
\* of an entry is abs(diff), here to the nearest millionth
DiffStep(acc, pre_amount, post_amount, symbol) ==
    IF AboveNoise(pre_amount, post_amount)
    THEN IF post_amount - pre_amount > 0
         THEN [tokens_in |-> Append(acc.tokens_in,
                                    [amount |-> Abs(post_amount - pre_amount),
                                     symbol |-> symbol]),
               tokens_out |-> acc.tokens_out]
         ELSE [tokens_in |-> acc.tokens_in,
               tokens_out |-> Append(acc.tokens_out,
                                     [amount |-> Abs(post_amount - pre_amount),
                                      symbol |-> symbol])]
    ELSE acc

\* `for mint in all_mints`, the set being walked in the order `order`
RECURSIVE DiffLoop(_, _, _, _, _)
DiffLoop(pre_balances, post_balances, order, i, acc) ==
    IF i > Len(order) THEN acc
    ELSE DiffLoop(pre_balances, post_balances, order, i + 1,
                  DiffStep(acc,
                           AmountIn(pre_balances, order[i]),
                           AmountIn(post_balances, order[i]),
                           SymbolIn(post_balances, order[i])))

\* all_mints = set(list(pre_balances.keys()) + list(post_balances.keys()))
AllMints(transaction) ==
    DOMAIN BuildBalances(EmptyDict, transaction.preTokenBalances)
        \cup DOMAIN BuildBalances(EmptyDict, transaction.postTokenBalances)
\* The orders in which a set can be walked
Orders(S) == {o \in [1..Cardinality(S) -> S] :
                 \A i, j \in DOMAIN o : i # j => o[i] # o[j]}

\* _analyze_token_changes(transaction); no step of it raises on these inputs
AnalyzeTokenChanges(transaction, order) ==
    DiffLoop(BuildBalances(EmptyDict, transaction.preTokenBalances),
             BuildBalances(EmptyDict, transaction.postTokenBalances),
             order, 1, [tokens_in |-> << >>, tokens_out |-> << >>])

\* The None of _process_swap and the dict it returns, told apart by `found`
NoSwapInfo == [found |-> FALSE]
SwapInfo(sig_info, protocol, changes) ==
    [found |-> TRUE,
     signature |-> sig_info.signature,
     timestamp |-> sig_info.blockTime,
     protocol |-> protocol,
     tokens_in |-> changes.tokens_in,
     tokens_out |-> changes.tokens_out]

\* lines 172-182 of _process_swap, with the protocol and the token changes
SwapInfoOf(sig_info, protocol, changes) ==
    IF changes.tokens_in = << >> /\ changes.tokens_out = << >>
    THEN NoSwapInfo
    ELSE SwapInfo(sig_info, protocol, changes)

\* _process_swap reporting every transaction classified as a swap
AnalyzerProcessSwapUnfiltered(transaction, sig_info, order) ==
    IF ~IsSwapTransaction(transaction).is_swap THEN NoSwapInfo
    ELSE SwapInfo(sig_info, IsSwapTransaction(transaction).protocol,
                  AnalyzeTokenChanges(transaction, order))

\* _process_swap(transaction, sig_info) of SolanaSwapAnalyzer
AnalyzerProcessSwap(transaction, sig_info, order) ==
    IF ~IsSwapTransaction(transaction).is_swap THEN NoSwapInfo
    ELSE SwapInfoOf(sig_info, IsSwapTransaction(transaction).protocol,
                    AnalyzeTokenChanges(transaction, order))

\* Inputs: program ids of instructions (two swap programs, the system
\* program), log lines (an id as a word of the line, an id inside a longer
\* word, no id), and lists of at most MaxItems of them
JUPITER == SWAP_PROGRAMS[1].id
ORCA == SWAP_PROGRAMS[2].id
SYSTEM_PROGRAM == "11111111111111111111111111111111"
ProgramIds == {JUPITER, ORCA, SYSTEM_PROGRAM}
LogLines == {"Program " \o JUPITER \o " invoke [1]",
             "Program log: route=" \o ORCA \o "x.",
             "Program log: Instruction: Transfer"}
MaxItems == 2
ListsOf(S) == UNION {[1..n -> S] : n \in 0..MaxItems}
SwapShapes == [instructions : ListsOf(ProgramIds), logMessages : ListsOf(LogLines)]
\* Inputs: two mints, balances of them with and without a symbol, one
\* balance without mint, one with a null amount; snapshots of at most two
BONK_MINT == <<"DezXAZ8z", "7PnrnRJjz3wXBoRgixCa6xjnB7YaB1pPB263">>
WIF_MINT == <<"EKpQGSJt", "jMFqKZ9KQanSqYXRcF8fBopzLHYxdM65zcjm">>
Mints == {BONK_MINT, WIF_MINT}
Balances ==
    [mint : Mints, uiAmount : {1, 2, 3, 5}, symbol : {"", "BONK"}]
        \cup {[mint |-> NoMint, uiAmount |-> 7, symbol |-> "X"],
              [mint |-> WIF_MINT, uiAmount |-> None, symbol |-> ""]}
Snapshots ==
    {<< >>} \cup {<<b>> : b \in Balances}
            \cup {<<a, b>> : a \in Balances, b \in Balances}
BalanceShapes == [preTokenBalances : Snapshots, postTokenBalances : Snapshots]
\* Snapshots of the wrapped native mint, whose symbol the ledger source may
\* or may not supply; Identifier is the mint as one string
WSOL_MINT == <<"So111111", "11111111111111111111111111111111112">>
Identifier(mint) == mint[1] \o mint[2]
NativeBalances == [mint : {WSOL_MINT}, uiAmount : {1, 5}, symbol : {"", "SOL"}]
NativeSnapshots == {<< >>} \cup {<<b>> : b \in NativeBalances}
NativeShapes ==
    [preTokenBalances : NativeSnapshots, postTokenBalances : NativeSnapshots]
\* Inputs of _process_swap: whole transactions and entries of the
\* signature listing, blockTime being None when the listing holds null
FewSnapshots ==
    {<< >>,
     <<[mint |-> BONK_MINT, uiAmount |-> 2, symbol |-> "BONK"]>>,
     <<[mint |-> BONK_MINT, uiAmount |-> 1, symbol |-> "BONK"]>>,
     <<[mint |-> BONK_MINT, uiAmount |-> 3, symbol |-> "BONK"]>>,
     <<[mint |-> BONK_MINT, uiAmount |-> 5, symbol |-> ""],
       [mint |-> WIF_MINT, uiAmount |-> 1, symbol |-> ""]>>}
Transactions ==
    [instructions : {<< >>, <<JUPITER>>, <<SYSTEM_PROGRAM>>},
     logMessages : {<< >>, <<"Program " \o ORCA \o " success">>},
     preTokenBalances : FewSnapshots,
     postTokenBalances : FewSnapshots]
SigInfos == [signature : {"sigA", "sigB"}, blockTime : {None, 2 * Hour}]

(***************************************************************************)
(* _extract_features.  A statistic is the fraction [num, den] of two       *)
(* integers; a transaction of a window is [blockTime, fee, instructions,   *)
(* accountKeys, signatures, slot].                                         *)
(***************************************************************************)
Frac(n, d) == [num |-> n, den |-> d]
Zero == Frac(0, 1)
FracAdd(a, b) == Frac(a.num * b.den + b.num * a.den, a.den * b.den)

RECURSIVE SumSeq(_)
SumSeq(q) == IF q = << >> THEN 0 ELSE Head(q) + SumSeq(Tail(q))
RECURSIVE SumSquares(_)
SumSquares(q) == IF q = << >> THEN 0 ELSE Head(q) * Head(q) + SumSquares(Tail(q))
RECURSIVE SumFracs(_)
SumFracs(q) == IF q = << >> THEN Zero ELSE FracAdd(Head(q), SumFracs(Tail(q)))

\* the integer part of the square root
ISqrt(x) == CHOOSE r \in 0..x : r * r <= x /\ (r + 1) * (r + 1) > x
\* np.mean and np.std (population) of a non-empty list of integers; the
\* root is exact when the list holds at most two values
Mean(q) == Frac(SumSeq(q), Len(q))
Std(q) == Frac(ISqrt(Len(q) * SumSquares(q) - SumSeq(q) * SumSeq(q)), Len(q))
\* np.mean of a non-empty list of fractions
MeanFracs(q) == Frac(SumFracs(q).num, SumFracs(q).den * Len(q))
\* np.diff
Diff(q) == [i \in 1..(Len(q) - 1) |-> q[i + 1] - q[i]]

\* sorted(timestamps)
RECURSIVE Sorted(_)
SortedInsert(x, q) ==
    LET k == Cardinality({i \in DOMAIN q : q[i] <= x})
    IN  SubSeq(q, 1, k) \o <<x>> \o SubSeq(q, k + 1, Len(q))
Sorted(q) == IF q = << >> THEN << >> ELSE SortedInsert(Head(q), Sorted(Tail(q)))

RECURSIVE Flatten(_)
Flatten(qq) == IF qq = << >> THEN << >> ELSE Head(qq) \o Flatten(Tail(qq))
Values(q) == {q[i] : i \in DOMAIN q}
\* a set as a list, in some order
RECURSIVE SetToSeq(_)
SetToSeq(S) ==
    IF S = {} THEN << >>
    ELSE LET x == CHOOSE y \in S : TRUE IN <<x>> \o SetToSeq(S \ {x})

\* np.log2 in thousandths, rounded
Log2Milli(c) == IF c = 1 THEN 0
                ELSE IF c = 2 THEN 1000
                ELSE IF c = 3 THEN 1585
                ELSE IF c = 4 THEN 2000
                ELSE IF c = 5 THEN 2322
                ELSE 2585
CountOf(data, x) == Cardinality({i \in DOMAIN data : data[i] = x})
\* _calculate_entropy(data): -sum(p * log2(p)) over the distinct values
CalculateEntropy(data) ==
    IF data = << >> THEN Zero
    ELSE Frac(SumSeq([i \in DOMAIN data |->
                         Log2Milli(Len(data)) - Log2Milli(CountOf(data, data[i]))]),
              1000 * Len(data))

\* ordered_feature_names
OrderedFeatureNames ==
    <<"total_transactions", "avg_fee", "std_fee", "avg_time_between_tx",
      "time_variance", "avg_time_between_account_tx", "unique_accounts_count",
      "account_diversity_score", "avg_instructions_per_tx",
      "instruction_complexity_score", "system_program_interaction_ratio",
      "signature_entropy", "slot_variation">>

Column(transactions, field) ==
    [i \in DOMAIN transactions |-> transactions[i][field]]
InstructionCounts(transactions) ==
    [i \in DOMAIN transactions |-> Len(transactions[i].instructions)]
AllAccounts(transactions) == Flatten(Column(transactions, "accountKeys"))
\* account_time_pairs[account]: the blockTime of every mention of the account
AccountTimes(transactions, account) ==
    Flatten([i \in DOMAIN transactions |->
                [k \in 1..CountOf(transactions[i].accountKeys, account) |->
                    transactions[i].blockTime]])
\* account_avg_times
AccountAvgTimes(transactions) ==
    LET several == {a \in Values(AllAccounts(transactions)) :
                       Len(AccountTimes(transactions, a)) > 1}
        accounts == SetToSeq(several)
    IN  [i \in DOMAIN accounts |->
            Mean(Diff(Sorted(AccountTimes(transactions, accounts[i]))))]
SystemInteractions(transactions) ==
    Cardinality({i \in DOMAIN transactions :
                    SYSTEM_PROGRAM \in Values(transactions[i].accountKeys)})

\* raw_features of _extract_features (lines 315-396)
RawFeatures(transactions) ==
    [avg_time_between_tx |->
         IF Len(transactions) > 1
         THEN Mean(Diff(Column(transactions, "blockTime"))) ELSE Zero,
     time_variance |->
         IF Len(transactions) > 1
         THEN Std(Diff(Column(transactions, "blockTime"))) ELSE Zero,
     total_transactions |-> Frac(Len(transactions), 1),
     avg_fee |->
         IF transactions # << >> THEN Mean(Column(transactions, "fee")) ELSE Zero,
     std_fee |->
         IF transactions # << >> THEN Std(Column(transactions, "fee")) ELSE Zero,
     avg_instructions_per_tx |->
         IF transactions # << >> THEN Mean(InstructionCounts(transactions))
         ELSE Zero,
     instruction_complexity_score |->
         IF transactions # << >> THEN Std(InstructionCounts(transactions))
         ELSE Zero,
     avg_time_between_account_tx |->
         IF AccountAvgTimes(transactions) # << >>
         THEN MeanFracs(AccountAvgTimes(transactions)) ELSE Zero,
     unique_accounts_count |->
         Frac(Cardinality(Values(AllAccounts(transactions))), 1),
     account_diversity_score |->
         IF AllAccounts(transactions) # << >>
         THEN Frac(Cardinality(Values(AllAccounts(transactions))),
                   Len(AllAccounts(transactions)))
         ELSE Zero,
     system_program_interaction_ratio |->
         IF transactions # << >>
         THEN Frac(SystemInteractions(transactions), Len(transactions))
         ELSE Zero,
     signature_entropy |->
         CalculateEntropy(Flatten(Column(transactions, "signatures"))),
     slot_variation |->
         IF transactions # << >> THEN Std(Column(transactions, "slot")) ELSE Zero]

\* lines 398-430: the features in the order of the trained model, or the
\* ValueError when a name is missing from raw_features
OrderFeatures(raw_features) ==
    IF \E i \in DOMAIN OrderedFeatureNames :
           OrderedFeatureNames[i] \notin DOMAIN raw_features
    THEN [raised |-> TRUE, features |-> << >>]
    ELSE [raised |-> FALSE,
          features |-> [i \in DOMAIN OrderedFeatureNames |->
                           [name |-> OrderedFeatureNames[i],
                            value |-> raw_features[OrderedFeatureNames[i]]]]]

\* _extract_features(transactions)
ExtractFeatures(transactions) == OrderFeatures(RawFeatures(transactions))

\* Inputs: transactions of one or two signatures, and windows of one or two
FeatureTransactions ==
    [blockTime : {100, 106}, fee : {5000, 5002},
     instructions : {<<SYSTEM_PROGRAM>>, <<JUPITER, SYSTEM_PROGRAM>>},
     accountKeys : {<<"walletA">>, <<"walletA", SYSTEM_PROGRAM>>,
                    <<"walletA", "walletA">>},
     signatures : {<<"sig1">>, <<"sig1", "sig2">>},
     slot : {10, 14}]
Windows ==
    {<<t>> : t \in FeatureTransactions}
        \cup {<<t, u>> : t \in FeatureTransactions, u \in FeatureTransactions}

(***************************************************************************)
(* SolanaSwapAnalyzer.analyze_wallet.  A signature is its position in the  *)
(* listing; all_transactions holds the signatures the transactions were    *)
(* fetched for and `fetched` the transaction fetched for each of them.     *)
(***************************************************************************)
\* signatures the caller asks for beyond the early-detection count
MaxExtra == 2
MaxTransactions == EARLY_DETECTION_COUNT + MaxExtra
\* the signatures whose getTransaction call may fail or find nothing
Failable == {1, EARLY_DETECTION_COUNT, EARLY_DETECTION_COUNT + 1}
Scores == {50, 75, 96}
\* What feature extraction and predict_proba do with a window: a score, or
\* an exception
Classifications == [ok : BOOLEAN, score : Scores]

NoEval == [evaluated |-> FALSE, ok |-> FALSE, score |-> 0, window |-> << >>,
           fetches |-> 0]
NoAnalysis == [status |-> "none", total_transactions |-> 0,
               bot_probability |-> 0, triggered |-> FALSE,
               transactions_analyzed |-> 0, swaps |-> << >>]
\* What getTransaction may return: a swap that moves a token, a transaction
\* of a swap program that moves none, a transfer outside the swap programs
MaterialSwap ==
    [instructions |-> <<JUPITER>>, logMessages |-> << >>,
     preTokenBalances |->
         <<[mint |-> BONK_MINT, uiAmount |-> 2, symbol |-> "BONK"]>>,
     postTokenBalances |->
         <<[mint |-> BONK_MINT, uiAmount |-> 5, symbol |-> "BONK"]>>]
EmptySwap == [MaterialSwap EXCEPT !.postTokenBalances = MaterialSwap.preTokenBalances]
PlainTransfer == [MaterialSwap EXCEPT !.instructions = <<SYSTEM_PROGRAM>>]
LoopTransactions == {MaterialSwap, EmptySwap, PlainTransfer}
\* the signatures whose transaction may be of a swap program
SwapSigs == {1, EARLY_DETECTION_COUNT + 1}
\* the entry of the signature listing: getSignaturesForAddress lists the
\* newest transaction first
SigInfo(sig) ==
    [signature |-> sig, blockTime |-> IF sig = 1 THEN 3 * Hour ELSE 2 * Hour]

AnIdle ==
    /\ an_pc = "idle"
    /\ has_model = FALSE
    /\ signatures = << >>
    /\ idx = 0
    /\ all_transactions = << >>
    /\ early_detection_triggered = FALSE
    /\ fetch_log = << >>
    /\ failed = {}
    /\ early = NoEval
    /\ final = NoEval
    /\ an_result = NoAnalysis
    /\ swaps_data = << >>
    /\ fetched = << >>

\* __init__ (model loaded or not), then analyze_wallet entered
InitAnalyzer ==
    /\ PriceInit /\ McInit /\ AuxIdle
    /\ an_pc = "start"
    /\ has_model \in BOOLEAN
    /\ signatures = << >>
    /\ idx = 0
    /\ all_transactions = << >>
    /\ early_detection_triggered = FALSE
    /\ fetch_log = << >>
    /\ failed = {}
    /\ early = NoEval
    /\ final = NoEval
    /\ an_result = NoAnalysis
    /\ swaps_data = << >>
    /\ fetched = << >>

\* lines 54-68: getSignaturesForAddress; n signatures are returned, or the
\* request fails
ListSignatures(ok, n) ==
    /\ an_pc = "start"
    /\ IF ok
       THEN /\ signatures' = [i \in 1..n |-> i]
            /\ an_pc' = "loop"
            /\ an_result' = an_result
       ELSE /\ signatures' = signatures
            /\ an_pc' = "done"
            /\ an_result' = [NoAnalysis EXCEPT !.status = "error"]
    /\ UNCHANGED <<has_model, idx, all_transactions,
                   early_detection_triggered, fetch_log, failed, early, final,
                   swaps_data, fetched>>

\* _perform_early_detection with a strict comparison
PerformEarlyDetectionStrict(model, c) ==
    IF ~model THEN FALSE
    ELSE IF c.ok /\ c.score > BOT_THRESHOLD THEN TRUE
    ELSE FALSE

\* _perform_early_detection triggering on any window a model is loaded for
PerformEarlyDetectionUnscored(model, c) ==
    IF ~model THEN FALSE
    ELSE TRUE

\* _perform_early_detection(transactions), c being what the classifier does
\* with the window
PerformEarlyDetection(model, c) ==
    IF ~model THEN FALSE
    ELSE IF c.ok /\ c.score >= BOT_THRESHOLD THEN TRUE
    ELSE FALSE

\* lines 71-90: one iteration of the for loop
FetchTransaction(ok, c, transaction, order) ==
    /\ an_pc = "loop"
    /\ idx < Len(signatures)
    /\ signatures[idx + 1] \in SwapSigs \/ transaction = PlainTransfer
    /\ LET sig == signatures[idx + 1]
       IN  /\ fetch_log' = Append(fetch_log, sig)
           /\ idx' = idx + 1
           /\ IF ~ok
              THEN /\ sig \in Failable
                   /\ failed' = failed \cup {sig}
                   /\ UNCHANGED <<all_transactions, early, an_pc,
                                  early_detection_triggered, swaps_data,
                                  fetched>>
              ELSE LET txs == Append(all_transactions, sig)
                       at_count == Len(txs) = EARLY_DETECTION_COUNT
                       swap_info == AnalyzerProcessSwap(transaction,
                                                        SigInfo(sig), order)
                   IN  /\ all_transactions' = txs
                       /\ fetched' = Put(fetched, sig, transaction)
                       /\ swaps_data' = IF swap_info.found
                                        THEN Append(swaps_data, swap_info)
                                        ELSE swaps_data
                       /\ failed' = failed
                       /\ early' = IF at_count /\ has_model
                                   THEN [evaluated |-> TRUE, ok |-> c.ok,
                                         score |-> c.score, window |-> txs,
                                         fetches |-> Len(fetch_log) + 1]
                                   ELSE early
                       /\ IF at_count /\ PerformEarlyDetection(has_model, c)
                          THEN /\ early_detection_triggered' = TRUE
                               /\ an_pc' = "classify"
                          ELSE /\ UNCHANGED early_detection_triggered
                               /\ an_pc' = "loop"
    /\ UNCHANGED <<has_model, signatures, final, an_result>>

\* _calculate_bot_probability reporting 0 below the bot threshold
CalculateBotProbabilityThresholded(model, transactions, c) ==
    IF ~model \/ transactions = << >> THEN 0
    ELSE IF c.ok /\ c.score >= BOT_THRESHOLD THEN c.score
    ELSE 0

\* _calculate_bot_probability scoring the window whether or not a model was
\* loaded
CalculateBotProbabilityUnguarded(model, transactions, c) ==
    IF transactions = << >> THEN 0
    ELSE IF c.ok THEN c.score
    ELSE 0

\* _calculate_bot_probability(transactions)
CalculateBotProbability(model, transactions, c) ==
    IF ~model \/ transactions = << >> THEN 0
    ELSE IF c.ok THEN c.score
    ELSE 0

\* lines 92-108: the final classification and the result.  The classifier is
\* a function: a window it has already seen gets the same answer.
Classify(c) ==
    /\ \/ an_pc = "classify"
       \/ an_pc = "loop" /\ idx = Len(signatures)
    /\ early.evaluated /\ early.window = all_transactions
         => c = [ok |-> early.ok, score |-> early.score]
    /\ final' = IF has_model /\ all_transactions # << >>
                THEN [evaluated |-> TRUE, ok |-> c.ok, score |-> c.score,
                      window |-> all_transactions, fetches |-> Len(fetch_log)]
                ELSE final
    /\ an_result' = [status |-> "ok",
                     total_transactions |-> Len(all_transactions),
                     bot_probability |->
                         CalculateBotProbability(has_model, all_transactions, c),
                     triggered |-> early_detection_triggered,
                     transactions_analyzed |-> Len(all_transactions),
                     swaps |-> swaps_data]
    /\ an_pc' = "done"
    /\ UNCHANGED <<has_model, signatures, idx, all_transactions,
                   early_detection_triggered, fetch_log, failed, early,
                   swaps_data, fetched>>

NextAnalyzer ==
    \/ \E ok \in BOOLEAN, n \in 0..MaxTransactions :
           ListSignatures(ok, n) /\ UNCHANGED price_vars /\ UNCHANGED mc_vars
           /\ UNCHANGED aux_vars
    \/ \E ok \in BOOLEAN, c \in Classifications,
          transaction \in LoopTransactions :
         \E order \in Orders(AllMints(transaction)) :
           FetchTransaction(ok, c, transaction, order) /\ UNCHANGED price_vars /\ UNCHANGED mc_vars
           /\ UNCHANGED aux_vars
    \/ \E c \in Classifications :
           Classify(c) /\ UNCHANGED price_vars /\ UNCHANGED mc_vars
           /\ UNCHANGED aux_vars

SpecAnalyzer == InitAnalyzer /\ [][NextAnalyzer]_vars

\* The loop and the calls in it are bounded by timeouts: a run that can take
\* a step does take it.
FairAnalyzer == SpecAnalyzer /\ WF_vars(NextAnalyzer)

(***************************************************************************)
(* WalletProcessor.process_address: the cached analysis or analyze_wallet, *)
(* then the behaviour metrics, then calculate_metrics over the swaps of    *)
(* the analysis unless the wallet is a bot of high probability.            *)
(***************************************************************************)
\* analyze_behavior(analysis)
AnalyzeBehavior(analysis) ==
    [is_bot |-> analysis.bot_probability >= BOT_THRESHOLD,
     bot_probability |-> analysis.bot_probability,
     total_swaps |-> Len(analysis.swaps),
     transactions_analyzed |-> analysis.total_transactions,
     early_detection |-> analysis.triggered]

\* should_skip_detailed_analysis comparing with the bot threshold alone
ShouldSkipDetailedAnalysisAnyBot(behavior_metrics) ==
    behavior_metrics.is_bot

\* should_skip_detailed_analysis(behavior_metrics)
ShouldSkipDetailedAnalysis(behavior_metrics) ==
    /\ behavior_metrics.is_bot
    /\ behavior_metrics.bot_probability > HIGH_PROBABILITY_BOT_THRESHOLD

\* calculate_metrics, lines 196-198, as one loop over the swaps
RECURSIVE ProcessSwaps(_, _, _, _)
ProcessSwaps(st, swaps, o, yf) ==
    IF swaps = << >> THEN st
    ELSE ProcessSwaps(ProcessSwapOp(st.tm, st.cache, st.file, Head(swaps), o, yf),
                      Tail(swaps), o, yf)

\* calculate_metrics, lines 204-255, from the outcome u of the PnL passes
MetricsOf(u) ==
    [tm |-> u.tm, cache |-> u.cache, file |-> u.file, raised |-> u.raised,
     metrics |-> IF u.raised THEN TotalMetrics(<< >>) ELSE TotalMetrics(u.tm)]

\* calculate_metrics, lines 200-202, from the state st the swaps left
PnlPasses(st, yf) ==
    CalculateUnrealizedPnl(CalculateRealizedPnl(st.tm), st.cache, st.file, Now, yf)

\* calculate_metrics(swaps) on a MetricsCalculator whose PriceService holds
\* `cache`: the ledger is cleared first
CalculateMetricsOp(swaps, cache, file, o, yf) ==
    MetricsOf(PnlPasses(ProcessSwaps([tm |-> << >>, cache |-> cache,
                                      file |-> file], swaps, o, yf), yf))

\* What process_address left behind: whether calculate_metrics was called
\* and what it and generate_token_summary returned, which updates the
\* database committed, and whether complete_analysis was saved
Processed(status, pnl_run, behavior_metrics, has_trade_metrics, trade_metrics, token_summary, db_committed, analysis_saved) ==
    [status |-> status, pnl_run |-> pnl_run,
     behavior_metrics |-> behavior_metrics,
     has_trade_metrics |-> has_trade_metrics,
     trade_metrics |-> trade_metrics, token_summary |-> token_summary,
     db_committed |-> db_committed, analysis_saved |-> analysis_saved]
NoBehavior == [is_bot |-> FALSE, bot_probability |-> 0, total_swaps |-> 0,
               transactions_analyzed |-> 0, early_detection |-> FALSE]

\* WalletProcessor.__init__ done, process_address not yet called
InitProcessor ==
    /\ PriceInit /\ McInit /\ AuxIdle
    /\ an_pc = "idle"
    /\ has_model \in BOOLEAN
    /\ signatures = << >>
    /\ idx = 0
    /\ all_transactions = << >>
    /\ early_detection_triggered = FALSE
    /\ fetch_log = << >>
    /\ failed = {}
    /\ early = NoEval
    /\ final = NoEval
    /\ an_result = NoAnalysis
    /\ swaps_data = << >>
    /\ fetched = << >>

\* process_address, lines 72-86: a recent analysis is used as it is, else
\* analyze_wallet is entered
BeginProcessAddress(recent) ==
    /\ processing.status = "none"
    /\ an_pc = "idle"
    /\ IF recent
       THEN /\ processing' = Processed("cached", FALSE, NoBehavior, FALSE,
                                       TotalMetrics(<< >>), << >>, {}, FALSE)
            /\ an_pc' = an_pc
       ELSE /\ processing' = [status |-> "analyzing"]
            /\ an_pc' = "start"
    /\ UNCHANGED <<has_model, signatures, idx, all_transactions,
                   early_detection_triggered, fetch_log, failed, early, final,
                   an_result, swaps_data, fetched>>
    /\ UNCHANGED <<instances, call, ret, rpc>>
    /\ UNCHANGED price_vars /\ UNCHANGED mc_vars

\* What the database does with the updates of one save_results_to_db call:
\* it takes them, it refuses the connection or the first update, or it takes
\* the first and refuses the second
DbOutcomes == {"ok", "behavior_refused", "stats_refused"}

\* save_results_to_db(address, behavior_metrics, trade_metrics):
\* update_behavior_metrics, then update_wallet_stats when trade_metrics is
\* given, each committed on its own; a refused update is rolled back and
\* raised again
SaveResultsToDb(db, has_trade_metrics) ==
    IF db = "behavior_refused"
    THEN [committed |-> {}, raised |-> TRUE]
    ELSE IF has_trade_metrics /\ db = "stats_refused"
    THEN [committed |-> {"behavior"}, raised |-> TRUE]
    ELSE [committed |-> IF has_trade_metrics THEN {"behavior", "stats"}
                        ELSE {"behavior"},
          raised |-> FALSE]

\* process_address from save_results_to_db on (lines 102 or 123, then 126):
\* d is what save_results_to_db did, file_ok whether save_wallet_analysis
\* could write; `status` is the branch that was taken
SaveAnalysis(status, pnl_run, behavior_metrics, has_trade_metrics, trade_metrics, token_summary, d, file_ok) ==
    Processed(IF d.raised \/ ~file_ok THEN "raised" ELSE status, pnl_run,
              behavior_metrics, has_trade_metrics, trade_metrics,
              token_summary, d.committed, ~d.raised /\ file_ok)

\* process_address, lines 108-126, r being what calculate_metrics did
DetailedAnalysis(behavior_metrics, r, db, file_ok) ==
    /\ token_metrics' = r.tm
    /\ price_cache' = r.cache
    /\ cache_file' = r.file
    /\ processing' =
          IF r.raised
          THEN Processed("raised", TRUE, behavior_metrics, FALSE,
                         TotalMetrics(<< >>), << >>, {}, FALSE)
          ELSE SaveAnalysis("detailed", TRUE, behavior_metrics, TRUE,
                            r.metrics, r.tm, SaveResultsToDb(db, TRUE),
                            file_ok)

\* process_address, lines 87-126, once analyze_wallet returned
FinishProcessAddress(o, yf, db, file_ok) ==
    /\ processing.status = "analyzing"
    /\ an_pc = "done"
    /\ IF an_result.status = "error"
       THEN /\ processing' = Processed("error", FALSE, NoBehavior, FALSE,
                                       TotalMetrics(<< >>), << >>, {}, FALSE)
            /\ UNCHANGED <<token_metrics, price_cache, cache_file>>
       ELSE IF ShouldSkipDetailedAnalysis(AnalyzeBehavior(an_result))
       THEN /\ processing' =
                  SaveAnalysis("skipped", FALSE, AnalyzeBehavior(an_result),
                               FALSE, TotalMetrics(<< >>), << >>,
                               SaveResultsToDb(db, FALSE), file_ok)
            /\ UNCHANGED <<token_metrics, price_cache, cache_file>>
       ELSE DetailedAnalysis(AnalyzeBehavior(an_result),
                             CalculateMetricsOp(an_result.swaps, price_cache,
                                                cache_file, o, yf),
                             db, file_ok)
    /\ UNCHANGED <<mc_pc, mc_count, mc_result, applied, last_swap, last>>
    /\ UNCHANGED an_vars
    /\ UNCHANGED <<instances, call, ret, rpc>>

NextProcessor ==
    \/ \E recent \in BOOLEAN : BeginProcessAddress(recent)
    \/ NextAnalyzer
    \/ \E o \in PnlTokenOracles, yf \in PnlYfOracles, db \in DbOutcomes,
          file_ok \in BOOLEAN :
           FinishProcessAddress(o, yf, db, file_ok)

SpecProcessor == InitProcessor /\ [][NextProcessor]_vars

(***************************************************************************)
(* _make_rpc_request and its throttle.  Times are in milliseconds; the     *)
(* caller is the loop of analyze_wallet, which sleeps                      *)
(* TRANSACTION_PROCESSING_DELAY after a transaction it could use and goes  *)
(* on at once after one it could not.                                      *)
(***************************************************************************)
\* RATE_LIMIT['min_interval'] = 0.05 s
MIN_INTERVAL == 50
\* TRANSACTION_PROCESSING_DELAY = 0.2 s
TRANSACTION_PROCESSING_DELAY == 200
\* requests of one run
MaxRequests == 3
\* how long requests.post takes to answer or to fail
Latencies == {1, 60}

\* time.sleep(min_interval - time_since_last) when the last recorded request
\* is closer than min_interval (lines 124-128)
ThrottleWait(current_time, last_request_time) ==
    IF current_time - last_request_time < MIN_INTERVAL
    THEN MIN_INTERVAL - (current_time - last_request_time)
    ELSE 0

\* the analyzer exists and the wall clock is far from 0
InitRpc ==
    /\ PriceInit /\ McInit /\ AnIdle
    /\ instances = << >>
    /\ call = NoCallArgs
    /\ ret = NoRet
    /\ processing = NoProcessing
    /\ rpc = [NoRpc EXCEPT !.clock = 1000]

\* _make_rpc_request(method, params): the request leaves after the wait and
\* ends `latency` later; self.last_request_time is set on the success path
\* only (line 143).  Then the caller spends `pause` before its next request.
MakeRpcRequest(ok, latency, pause) ==
    /\ Len(rpc.sent) < MaxRequests
    /\ pause # 0 => ok
    /\ rpc' = [clock |-> rpc.clock
                           + ThrottleWait(rpc.clock, rpc.last_request_time)
                           + latency + pause,
               last_request_time |->
                   IF ok
                   THEN rpc.clock + ThrottleWait(rpc.clock, rpc.last_request_time)
                            + latency
                   ELSE rpc.last_request_time,
               sent |-> Append(rpc.sent,
                               [at |-> rpc.clock
                                         + ThrottleWait(rpc.clock,
                                                        rpc.last_request_time),
                                ok |-> ok])]
    /\ UNCHANGED <<instances, call, ret, processing>>

NextRpc ==
    \E ok \in BOOLEAN, latency \in Latencies,
       pause \in {0, TRANSACTION_PROCESSING_DELAY} :
        MakeRpcRequest(ok, latency, pause)
        /\ UNCHANGED price_vars /\ UNCHANGED mc_vars /\ UNCHANGED an_vars

SpecRpc == InitRpc /\ [][NextRpc]_vars

(***************************************************************************)
(* Specifications                                                          *)
(***************************************************************************)

\* MetricsCalculator over its PriceService
Init == PriceInit /\ McInit /\ AnIdle /\ AuxIdle

Next ==
    \/ CalcBegin /\ UNCHANGED an_vars /\ UNCHANGED aux_vars
    \/ \E swap \in Swaps, o \in PnlTokenOracles, yf \in PnlYfOracles :
           ProcessSwap(swap, o, yf) /\ UNCHANGED an_vars /\ UNCHANGED aux_vars
    \/ \E yf \in PnlYfOracles : CalcFinish(yf) /\ UNCHANGED an_vars /\ UNCHANGED aux_vars

Spec == Init /\ [][Next]_vars

\* calculate_metrics called again without line 193
CalcAgainKeeping ==
    /\ mc_pc = "idle"
    /\ mc_result.status # "none"
    /\ token_metrics' = token_metrics
    /\ mc_pc' = "swaps"
    /\ mc_count' = 0
    /\ mc_result' = NoResult
    /\ applied' = NoApplied
    /\ last_swap' = NoSwap
    /\ UNCHANGED price_vars

\* calculate_metrics called again on the same MetricsCalculator, whose ledger
\* and whose PriceService still hold what the earlier call left (line 193)
CalcAgain ==
    /\ mc_pc = "idle"
    /\ mc_result.status # "none"
    /\ token_metrics' = << >>
    /\ mc_pc' = "swaps"
    /\ mc_count' = 0
    /\ mc_result' = NoResult
    /\ applied' = NoApplied
    /\ last_swap' = NoSwap
    /\ UNCHANGED price_vars

\* The swaps of the runs: dated, with at most one leg on each side; the token
\* sources answer with the candlestick price or not at all
RunSwaps == {swap \in Swaps : swap.timestamp # None}
RunTokenOracles == {o \in PnlTokenOracles : o.jup = None /\ o.jup2 = None}

NextRuns ==
    \/ CalcBegin /\ UNCHANGED an_vars /\ UNCHANGED aux_vars
    \/ CalcAgain /\ UNCHANGED an_vars /\ UNCHANGED aux_vars
    \/ \E swap \in RunSwaps, o \in RunTokenOracles, yf \in PnlYfOracles :
           ProcessSwap(swap, o, yf) /\ UNCHANGED an_vars /\ UNCHANGED aux_vars
    \/ \E yf \in PnlYfOracles : CalcFinish(yf) /\ UNCHANGED an_vars /\ UNCHANGED aux_vars

SpecRuns == Init /\ [][NextRuns]_vars

\* PriceService alone, called directly
NextPrice ==
    \/ \E ts \in Timestamps, yf \in YfOracles :
           GetSolPrice(ts, yf) /\ UNCHANGED mc_vars /\ UNCHANGED an_vars /\ UNCHANGED aux_vars
    \/ \E token \in Tokens, ts \in Timestamps, o \in TokenOracles,
          yf \in YfOracles :
           GetTokenPriceInSol(token, ts, o, yf)
           /\ UNCHANGED mc_vars /\ UNCHANGED an_vars /\ UNCHANGED aux_vars
    \/ \E token \in Tokens, ts \in Timestamps, jup \in JupPrices \cup {None} :
           GetTokenPriceInUsd(token, ts, jup)
           /\ UNCHANGED mc_vars /\ UNCHANGED an_vars /\ UNCHANGED aux_vars
    \/ Restart /\ UNCHANGED mc_vars /\ UNCHANGED an_vars /\ UNCHANGED aux_vars

SpecPrice == Init /\ [][NextPrice]_vars

\* calculate_realized_pnl applied to an arbitrary ledger
LedgerAmounts == {0, 100, 150}
LedgerBalances == {-5, 0, 5}
LedgerEntries ==
    {[TokenMetrics(sym, 2 * Hour) EXCEPT !.usd_invested = inv,
                                         !.usd_withdrawn = wd,
                                         !.balance = bal,
                                         !.realized_pnl = old] :
        sym \in {"TOKX"}, inv \in LedgerAmounts, wd \in LedgerAmounts,
        bal \in LedgerBalances, old \in {0, 50}}

InitLedger ==
    /\ PriceInit /\ AnIdle /\ AuxIdle
    /\ token_metrics \in {<<e>> : e \in LedgerEntries}
          \cup {<<e, [f EXCEPT !.symbol = WSOL]>> :
                   e \in LedgerEntries, f \in LedgerEntries}
    /\ mc_pc = "ledger"
    /\ mc_count = 0
    /\ mc_result = NoResult
    /\ applied = NoApplied
    /\ last_swap = NoSwap

\* calculate_realized_pnl()
ApplyRealizedPnl ==
    /\ mc_pc = "ledger"
    /\ token_metrics' = CalculateRealizedPnl(token_metrics)
    /\ mc_pc' = "realized"
    /\ UNCHANGED <<mc_count, mc_result, applied, last_swap>>
    /\ UNCHANGED price_vars

NextLedger == ApplyRealizedPnl /\ UNCHANGED an_vars /\ UNCHANGED aux_vars

SpecLedger == InitLedger /\ [][NextLedger]_vars

(***************************************************************************)
(* Concurrent wallet analyses: every process has a PriceService of its own, *)
(* whose price_cache was loaded from SOL_PRICE_CACHE_FILE when the process *)
(* started; the file is all they share.  _save_cache is two steps on the   *)
(* file: open(..., 'w') truncates it, json.dump writes the text from       *)
(* offset 0; another process may run in between.                           *)
(***************************************************************************)
Instances == {1, 2}

\* What the price-history source answers to the lookups of the processes:
\* the requested hour has data, or the request fails (whether the file can
\* be opened shows at the open, a step of its own here)
SharedYfOracles == {yf \in YfOracles : yf.k = 0 /\ yf.writable}

\* An instance between two calls, holding `cache`
IdleInstance(cache) == [price_cache |-> cache, pc |-> "idle", pending |-> NoCall]

\* The file right after open(SOL_PRICE_CACHE_FILE, 'w'): empty, which
\* json.load refuses
TruncatedFile == [state |-> "truncated", content |-> NewCache]

\* The length of the text of the file, counted in entries (the keys and the
\* prices of the model print with the same number of characters)
FileSize(file) ==
    IF file.state \in {"valid", "corrupt"}
    THEN Cardinality(DOMAIN file.content.dt)
    ELSE 0

\* json.dump through a descriptor opened with 'w': the text goes over the
\* file from offset 0.  A longer text that another process wrote after the
\* open keeps its tail, and the file is then no JSON document (`content` of
\* such a file is the text whose tail is left, for its length).
DumpOver(file, cache) ==
    IF DumpCache(cache).state = "valid"
       /\ FileSize(DumpCache(cache)) < FileSize(file)
    THEN [state |-> "corrupt", content |-> file.content]
    ELSE DumpCache(cache)

\* Both processes were started before the cache file existed
InitShared ==
    /\ PriceInit /\ McInit /\ AnIdle
    /\ instances = [p \in Instances |-> IdleInstance(NewCache)]
    /\ call = NoCallArgs
    /\ ret = NoRet
    /\ processing = NoProcessing
    /\ rpc = NoRpc

\* The call record of get_sol_price(ts) in an instance holding `cache`,
\* r being what the lookup does
SolCall(cache, file, ts, r) ==
    [op |-> "get_sol_price", token |-> "", ts |-> ts,
     cached |-> CachedSol(cache, ts), result |-> r.result, calls |-> r.calls,
     dt_before |-> cache.dt, file_before |-> file.content.dt]

\* get_sol_price(timestamp) in process p up to _save_cache: the cache
\* lookup, the downloads and the store in the process's own price_cache.  A
\* call that stores nothing returns here.
InstanceGetSolPrice(p, ts, yf) ==
    /\ instances[p].pc = "idle"
    /\ LET cache == instances[p].price_cache
           r == GetSolPriceOp(cache, cache_file, ts, yf)
       IN  IF r.cache = cache
           THEN /\ last' = SolCall(cache, cache_file, ts, r)
                /\ UNCHANGED instances
           ELSE /\ instances' = [instances EXCEPT ![p] =
                                    [price_cache |-> r.cache, pc |-> "open",
                                     pending |-> SolCall(cache, cache_file,
                                                         ts, r)]]
                /\ UNCHANGED last
    /\ UNCHANGED <<price_cache, cache_file, call, ret, processing, rpc>>

\* _save_cache in process p, line 46: open(..., 'w') truncates the file;
\* when it raises, the exception is logged, the file stays as it was, the
\* price stays in the process's cache and get_sol_price returns it
InstanceOpenCacheFile(p, writable) ==
    /\ instances[p].pc = "open"
    /\ IF writable
       THEN /\ cache_file' = TruncatedFile
            /\ instances' = [instances EXCEPT ![p].pc = "dump"]
            /\ UNCHANGED last
       ELSE /\ last' = instances[p].pending
            /\ instances' = [instances EXCEPT
                                ![p] = IdleInstance(@.price_cache)]
            /\ UNCHANGED cache_file
    /\ UNCHANGED <<price_cache, call, ret, processing, rpc>>

\* _save_cache in process p, line 47: json.dump, then get_sol_price returns
InstanceDumpCache(p) ==
    /\ instances[p].pc = "dump"
    /\ cache_file' = DumpOver(cache_file, instances[p].price_cache)
    /\ last' = instances[p].pending
    /\ instances' = [instances EXCEPT ![p] = IdleInstance(@.price_cache)]
    /\ UNCHANGED <<price_cache, call, ret, processing, rpc>>

\* Process p ends, wherever it stands, and a new one starts: __init__ loads
\* the file
InstanceStart(p) ==
    /\ instances' = [instances EXCEPT ![p] = IdleInstance(LoadCache(cache_file))]
    /\ last' = [NoCall EXCEPT !.op = "restart"]
    /\ UNCHANGED <<price_cache, cache_file, call, ret, processing, rpc>>

NextShared ==
    \/ \E p \in Instances, ts \in Timestamps, yf \in SharedYfOracles :
           InstanceGetSolPrice(p, ts, yf)
           /\ UNCHANGED mc_vars /\ UNCHANGED an_vars
    \/ \E p \in Instances, writable \in BOOLEAN :
           InstanceOpenCacheFile(p, writable)
           /\ UNCHANGED mc_vars /\ UNCHANGED an_vars
    \/ \E p \in Instances :
           InstanceDumpCache(p) /\ UNCHANGED mc_vars /\ UNCHANGED an_vars
    \/ \E p \in Instances :
           InstanceStart(p) /\ UNCHANGED mc_vars /\ UNCHANGED an_vars

SpecShared == InitShared /\ [][NextShared]_vars

(***************************************************************************)
(* Single lookups of a PriceService, with what the sources held during the *)
(* lookup kept in `call`.                                                  *)
(***************************************************************************)
\* an hour boundary, 10 minutes past it, 30 minutes past it
LookupTimestamps == {2 * Hour, 2 * Hour + 600, 2 * Hour + 1800}
TokenLookupTimestamps == {2 * Hour}
NoOracle == [pump |-> None, jup |-> None, jup2 |-> None]

\* file_utils.round_to_nearest_hour(timestamp), now being datetime.now()
RoundToNearestHour(timestamp, now) ==
    LET minute == (timestamp % Hour) \div 60
        rounded_hour == (timestamp - (timestamp % Hour))
                        + (IF minute >= 30 THEN Hour ELSE 0)
    IN  IF rounded_hour > now THEN rounded_hour - 2 * Hour ELSE rounded_hour

InitLookup == Init

LookupSolPrice(ts, yf) ==
    /\ GetSolPrice(ts, yf)
    /\ call' = [op |-> "get_sol_price", o |-> NoOracle, yf |-> yf]
    /\ UNCHANGED <<instances, ret, processing, rpc>>

LookupTokenPriceInSol(token, ts, o, yf) ==
    /\ GetTokenPriceInSol(token, ts, o, yf)
    /\ call' = [op |-> "get_token_price_in_sol", o |-> o, yf |-> yf]
    /\ UNCHANGED <<instances, ret, processing, rpc>>

LookupTokenPriceInUsd(token, ts, jup) ==
    /\ GetTokenPriceInUsd(token, ts, jup)
    /\ call' = [op |-> "get_token_price_in_usd",
                o |-> [NoOracle EXCEPT !.jup2 = jup],
                yf |-> [k |-> 0, status |-> "error", close |-> 100,
                       writable |-> TRUE]]
    /\ UNCHANGED <<instances, ret, processing, rpc>>

NextLookup ==
    \E ts \in LookupTimestamps, yf \in YfOracles :
        LookupSolPrice(ts, yf) /\ UNCHANGED mc_vars /\ UNCHANGED an_vars

SpecLookup == InitLookup /\ [][NextLookup]_vars

\* The lookups of one hour, the price history answering at the requested
\* hour or one hour earlier
SourceYfOracles == {y \in YfOracles : y.k \in {0, 1}}

NextSources ==
    \/ \E ts \in TokenLookupTimestamps, yf \in SourceYfOracles :
           LookupSolPrice(ts, yf) /\ UNCHANGED mc_vars /\ UNCHANGED an_vars
    \/ \E token \in Tokens, ts \in TokenLookupTimestamps, o \in TokenOracles,
          yf \in SourceYfOracles :
           LookupTokenPriceInSol(token, ts, o, yf)
           /\ UNCHANGED mc_vars /\ UNCHANGED an_vars
    \/ \E token \in Tokens, ts \in TokenLookupTimestamps,
          jup \in JupPrices \cup {None} :
           LookupTokenPriceInUsd(token, ts, jup)
           /\ UNCHANGED mc_vars /\ UNCHANGED an_vars

SpecSources == InitLookup /\ [][NextSources]_vars

(***************************************************************************)
(* One call of a function of SolanaSwapAnalyzer                            *)
(***************************************************************************)
\* One call of one of the functions, on arguments drawn from the inputs
InitTx ==
    /\ PriceInit /\ McInit /\ AnIdle
    /\ instances = << >>
    /\ call \in [op : {"_is_swap_transaction"}, transaction : SwapShapes]
            \cup [op : {"_analyze_token_changes"},
                   transaction : BalanceShapes \cup NativeShapes]
            \cup [op : {"_process_swap"}, transaction : Transactions,
                   sig_info : SigInfos]
            \cup [op : {"_extract_features"}, transactions : Windows]
    /\ ret = NoRet
    /\ processing = NoProcessing
    /\ rpc = NoRpc

CallIsSwapTransaction ==
    /\ call.op = "_is_swap_transaction"
    /\ ret.op = "none"
    /\ ret' = [op |-> call.op] @@ IsSwapTransaction(call.transaction)
    /\ UNCHANGED <<instances, call, processing, rpc>>

CallAnalyzeTokenChanges ==
    /\ call.op = "_analyze_token_changes"
    /\ ret.op = "none"
    /\ \E order \in Orders(AllMints(call.transaction)) :
           ret' = [op |-> call.op] @@ AnalyzeTokenChanges(call.transaction, order)
    /\ UNCHANGED <<instances, call, processing, rpc>>

CallProcessSwap ==
    /\ call.op = "_process_swap"
    /\ ret.op = "none"
    /\ \E order \in Orders(AllMints(call.transaction)) :
           ret' = [op |-> call.op]
                      @@ AnalyzerProcessSwap(call.transaction, call.sig_info, order)
    /\ UNCHANGED <<instances, call, processing, rpc>>

CallExtractFeatures ==
    /\ call.op = "_extract_features"
    /\ ret.op = "none"
    /\ ret' = [op |-> call.op] @@ ExtractFeatures(call.transactions)
    /\ UNCHANGED <<instances, call, processing, rpc>>

NextTx ==
    \/ CallIsSwapTransaction
       /\ UNCHANGED price_vars /\ UNCHANGED mc_vars /\ UNCHANGED an_vars
    \/ CallAnalyzeTokenChanges
       /\ UNCHANGED price_vars /\ UNCHANGED mc_vars /\ UNCHANGED an_vars
    \/ CallProcessSwap
       /\ UNCHANGED price_vars /\ UNCHANGED mc_vars /\ UNCHANGED an_vars
    \/ CallExtractFeatures
       /\ UNCHANGED price_vars /\ UNCHANGED mc_vars /\ UNCHANGED an_vars

SpecTx == InitTx /\ [][NextTx]_vars

(***************************************************************************)
(* Properties                                                              *)
(***************************************************************************)
\* The field f of the entry of symbol s in ledger tm, 0 when s has no entry
FieldOf(tm, s, f) ==
    IF EntryOf(tm, s) = {} THEN 0 ELSE (CHOOSE e \in EntryOf(tm, s) : TRUE)[f]

\* The sum of field f over the legs of direction is_input of symbol s whose
\* value resolved
RECURSIVE SumLegs(_, _, _, _)
SumLegs(legs, s, is_input, f) ==
    IF legs = << >> THEN 0
    ELSE (IF Head(legs).symbol = s /\ Head(legs).is_input = is_input
             /\ Head(legs).value # None
          THEN Head(legs)[f] ELSE 0)
         + SumLegs(Tail(legs), s, is_input, f)

\* The legs of the last process_swap call that were applied move exactly the
\* fields of their direction
LastSwapApplied ==
    \A s \in LegSymbols :
        LET legs == last_swap.legs
            before == last_swap.before
        IN  /\ FieldOf(token_metrics, s, "usd_invested")
                 = FieldOf(before, s, "usd_invested")
                   + SumLegs(legs, s, TRUE, "value")
            /\ FieldOf(token_metrics, s, "usd_withdrawn")
                 = FieldOf(before, s, "usd_withdrawn")
                   + SumLegs(legs, s, FALSE, "value")
            /\ FieldOf(token_metrics, s, "balance")
                 = FieldOf(before, s, "balance")
                   + SumLegs(legs, s, FALSE, "amount")
                   - SumLegs(legs, s, TRUE, "amount")

\* C1: every swap leg whose USD value resolved to v with amount a is applied
\* exactly: a tokens_in leg adds v to usd_invested and subtracts a from the
\* balance, a tokens_out leg adds v to usd_withdrawn and adds a to the
\* balance, nothing else of the two sums moves; after any sequence of swaps
\* the balance is the applied tokens_out amounts minus the applied tokens_in
\* amounts.
C1_LedgerUpdate ==
    /\ last_swap.called => LastSwapApplied
    /\ \A s \in LegSymbols :
          /\ FieldOf(token_metrics, s, "balance")
               = applied[s].amt_out - applied[s].amt_in
          /\ FieldOf(token_metrics, s, "usd_invested") = applied[s].vin
          /\ FieldOf(token_metrics, s, "usd_withdrawn") = applied[s].vout

\* C1 witness: two swaps applied legs of both directions to TOKX, and the
\* last one applied a tokens_in leg
C1_Witness ==
    /\ mc_count = 2
    /\ applied["TOKX"].amt_in > 0
    /\ applied["TOKX"].amt_out > applied["TOKX"].amt_in
    /\ applied["TOKX"].vin > 0 /\ applied["TOKX"].vout > 0
    /\ SumLegs(last_swap.legs, "TOKX", TRUE, "amount") > 0

\* C2: a leg whose USD value is unresolvable leaves the ledger of its symbol
\* as it was before process_swap (no entry created, trade_count, trade dates,
\* balance and sums unchanged), and the resolvable legs of the same swap are
\* applied.
C2_UnresolvedLegUntouched ==
    (mc_pc = "swaps" /\ last_swap.called) =>
        /\ \A s \in LegSymbols :
              (/\ \E i \in DOMAIN last_swap.legs : last_swap.legs[i].symbol = s
               /\ \A i \in DOMAIN last_swap.legs :
                      last_swap.legs[i].symbol = s
                          => last_swap.legs[i].value = None)
                  => EntryOf(token_metrics, s) = EntryOf(last_swap.before, s)
        /\ LastSwapApplied

\* C3: calculate_realized_pnl sets realized_pnl to 0 when usd_invested > 0,
\* usd_withdrawn = 0 and balance > 0, else to 0 when balance < 0, else to
\* usd_withdrawn - usd_invested; so it is 0 whenever balance < 0, and 0 for
\* the entry 100 / 0 / 5.
C3_RealizedPnlRule ==
    mc_pc = "realized" =>
        \A i \in DOMAIN token_metrics :
            LET e == token_metrics[i]
                open == e.usd_invested > 0 /\ e.usd_withdrawn = 0
                        /\ e.balance > 0
            IN  /\ open => e.realized_pnl = 0
                /\ ~open /\ e.balance < 0 => e.realized_pnl = 0
                /\ ~open /\ e.balance >= 0
                      => e.realized_pnl = e.usd_withdrawn - e.usd_invested
                /\ e.balance < 0 => e.realized_pnl = 0
                /\ (e.usd_invested = 100 /\ e.usd_withdrawn = 0
                    /\ e.balance = 5) => e.realized_pnl = 0

\* C3 witness: the pass ran over a ledger holding the entry 100 / 0 / 5 and
\* an entry of negative balance whose sums differ
C3_Witness ==
    /\ mc_pc = "realized"
    /\ \E i, j \in DOMAIN token_metrics :
          /\ token_metrics[i].usd_invested = 100
          /\ token_metrics[i].usd_withdrawn = 0
          /\ token_metrics[i].balance = 5
          /\ token_metrics[i].realized_pnl = 0
          /\ token_metrics[j].balance < 0
          /\ token_metrics[j].usd_withdrawn > token_metrics[j].usd_invested
          /\ token_metrics[j].realized_pnl = 0

\* C4: calculate_metrics returns whatever the prices: unrealized_pnl is 0 for
\* every entry whose balance is <= 0, balance * current price for an entry
\* whose balance is > 0 and whose current price resolves, 0 when it does not
\* resolve; nothing is raised.
C4_UnrealizedNeverRaises ==
    (mc_pc = "idle" /\ mc_result.status # "none") =>
        /\ mc_result.status = "returned"
        /\ \A i \in DOMAIN token_metrics :
              LET e == token_metrics[i]
              IN  /\ e.balance <= 0 => e.unrealized_pnl = 0
                  /\ e.balance > 0 => e.unrealized_pnl >= 0
                  /\ (e.balance > 0 /\ e.symbol \in SOLANA_ADDRESSES) =>
                        e.unrealized_pnl
                            = IF CachedSol(price_cache, Now) = None THEN 0
                              ELSE e.balance * CachedSol(price_cache, Now)

\* C5: when the collected transactions reach EARLY_DETECTION_COUNT and the
\* classifier scores that window >= BOT_THRESHOLD, the run stops early: no
\* getTransaction call follows the evaluation and the result reports
\* early_detection.triggered = true.
C5_EarlyStop ==
    (early.evaluated /\ early.ok /\ early.score >= BOT_THRESHOLD) =>
        /\ an_pc \in {"classify", "done"}
        /\ early_detection_triggered
        /\ Len(fetch_log) = early.fetches
        /\ Len(all_transactions) = EARLY_DETECTION_COUNT
        /\ an_pc = "done" => an_result.status = "ok" /\ an_result.triggered

\* C5 witness: a run with more signatures listed than the early-detection
\* count ended on a window scored 96
C5_Witness ==
    /\ an_pc = "done"
    /\ an_result.triggered
    /\ early.score = 96
    /\ Len(signatures) > EARLY_DETECTION_COUNT
    /\ Len(fetch_log) < Len(signatures)

\* The result of a run that ended without early detection
C6_Completed ==
    (an_pc = "done" /\ an_result.status = "ok" /\ ~an_result.triggered) =>
        /\ fetch_log = signatures
        /\ all_transactions
             = SelectSeq(signatures, LAMBDA sig : sig \notin failed)
        /\ an_result.total_transactions = Len(all_transactions)
        /\ (has_model /\ all_transactions # << >>) =>
              /\ final.evaluated
              /\ final.window = all_transactions
              /\ final.ok => an_result.bot_probability = final.score

\* C6: a run in which early detection does not trigger goes on collecting and
\* ends: it has then attempted every listed signature once, in the listed
\* order, and returns triggered = false with bot_probability the classifier's
\* score of the whole collected window.
C6_CompletesWithFullWindow ==
    /\ <>(an_pc = "done")
    /\ [](an_pc = "loop" => ~early_detection_triggered)
    /\ []C6_Completed

\* C6 witness: a run went past an early evaluation that did not trigger and
\* ended with the score 50 of a window longer than the early one
C6_Witness ==
    /\ an_pc = "done"
    /\ ~an_result.triggered
    /\ early.evaluated /\ early.ok
    /\ Len(all_transactions) > EARLY_DETECTION_COUNT
    /\ final.ok /\ final.score = 50
    /\ an_result.bot_probability = 50

\* C7: a failed signature listing or a failed getTransaction call ends the
\* run with an error result; a normal result is never computed from a window
\* that leaves failed transactions out.
C7_FetchFailureIsFatal ==
    an_pc = "done" =>
        /\ failed # {} => an_result.status = "error"
        /\ an_result.status = "ok" => all_transactions = fetch_log

\* C8: the USD value of a non-native leg is amount * tokenInNative *
\* nativePrice when both prices are available, else amount * tokenInUsd when
\* that price is available (also when it is the native price that is
\* missing), and unresolvable only when both routes fail.  Stated for the
\* first leg of the last process_swap call, from the cache before the call
\* and the answers of the sources during it.
C8_CompositeRule ==
    LET swap == last_swap.swap
        first == IF swap.tokens_in # << >> THEN Head(swap.tokens_in)
                 ELSE Head(swap.tokens_out)
        ts == swap.timestamp
        yf == last_swap.yf
        o == last_swap.o
        native == IF CachedSol(last_swap.cache, ts) # None
                  THEN CachedSol(last_swap.cache, ts)
                  ELSE IF yf.status = "data" THEN yf.close ELSE None
        in_native == IF CachedTokenSol(last_swap.cache, first.symbol, ts) # None
                     THEN CachedTokenSol(last_swap.cache, first.symbol, ts)
                     ELSE IF o.pump # None THEN o.pump
                     ELSE IF o.jup # None /\ native # None
                     THEN o.jup \div native
                     ELSE None
        in_usd == IF CachedTokenUsd(last_swap.cache, first.symbol, ts) # None
                  THEN CachedTokenUsd(last_swap.cache, first.symbol, ts)
                  ELSE o.jup2
        expected == IF in_native # None /\ native # None
                    THEN first.amount * in_native * native
                    ELSE IF in_usd # None THEN first.amount * in_usd
                    ELSE None
        actual == IF last_swap.legs = << >> THEN None
                  ELSE last_swap.legs[1].value
    IN  (/\ mc_pc = "swaps" /\ last_swap.called
         /\ ts # None
         /\ swap.tokens_in \o swap.tokens_out # << >>
         /\ first.symbol \notin SOLANA_ADDRESSES)
            => actual = expected

\* A lookup that found its key in the cache returned the cached value without
\* a remote call, and a lookup that returned a price left it under its key
C9_Memoized ==
    /\ last.cached # None => last.result = last.cached /\ last.calls = 0
    /\ (last.op = "get_sol_price" /\ last.result # None)
          => CachedSol(price_cache, last.ts) = last.result
    /\ (last.op = "get_token_price_in_sol" /\ last.result # None)
          => CachedTokenSol(price_cache, last.token, last.ts) = last.result
    /\ (last.op = "get_token_price_in_usd" /\ last.result # None)
          => CachedTokenUsd(price_cache, last.token, last.ts) = last.result

\* A lookup keeps every entry of the cache as it is
C9_EntriesKept ==
    last'.op # "restart" =>
        /\ \A k \in DOMAIN price_cache.dt :
              Has(price_cache'.dt, k) /\ price_cache'.dt[k] = price_cache.dt[k]
        /\ \A k \in DOMAIN price_cache.token_sol :
              /\ Has(price_cache'.token_sol, k)
              /\ price_cache'.token_sol[k] = price_cache.token_sol[k]
        /\ \A k \in DOMAIN price_cache.token_usd :
              /\ Has(price_cache'.token_usd, k)
              /\ price_cache'.token_usd[k] = price_cache.token_usd[k]

\* C9: the price cache of PriceService memoizes: once a price was fetched
\* for a key (native by timestamp, token-in-native and token-in-USD by token
\* and timestamp) every later lookup of the key returns that value without a
\* remote call, and the entry is never replaced.
C9_CacheIdempotent == []C9_Memoized /\ [][C9_EntriesKept]_vars

\* C9 witness: a token-in-USD lookup answered 300 from the cache
C9_Witness ==
    /\ last.op = "get_token_price_in_usd"
    /\ last.cached = 300
    /\ last.result = 300
    /\ last.calls = 0

\* C10: right after get_sol_price returned a freshly fetched price the cache
\* file holds that entry and every entry it held before, whatever token
\* prices the cache holds in memory, and a PriceService started from the
\* file answers the lookup from its loaded cache.
C10_FetchPersisted ==
    (last.op = "get_sol_price" /\ last.cached = None /\ last.result # None) =>
        /\ cache_file.state = "valid"
        /\ CachedSol(cache_file.content, last.ts) = last.result
        /\ \A k \in DOMAIN last.file_before :
              /\ Has(cache_file.content.dt, k)
              /\ cache_file.content.dt[k] = last.file_before[k]
        /\ CachedSol(LoadCache(cache_file), last.ts) = last.result

\* C11: with several PriceService instances sharing the cache file, an entry
\* that is in the file before a lookup of any instance is in the file, with
\* the same value, after it, and the file stays loadable: a racing writer
\* may fetch a missing key again but never removes or changes what another
\* instance persisted.
C11_SharedCacheAppendOnly ==
    last.op = "get_sol_price" =>
        /\ cache_file.state \notin {"corrupt", "truncated"}
        /\ \A k \in DOMAIN last.file_before :
              /\ Has(cache_file.content.dt, k)
              /\ cache_file.content.dt[k] = last.file_before[k]

\* C12: on a cache miss get_sol_price queries the requested hour, then on an
\* empty answer retries up to MAX_RETRIES times, the k-th retry asking for
\* the window k hours earlier; it returns the first answer with data, and
\* None only after all MAX_RETRIES retries came back empty; it never makes
\* more than 1 + MAX_RETRIES queries.
C12_BoundedRetries ==
    (call.op = "get_sol_price" /\ last.cached = None
     /\ call.yf.status = "data") =>
        /\ last.calls <= 1 + MAX_RETRIES
        /\ call.yf.k <= MAX_RETRIES =>
              last.result = call.yf.close /\ last.calls = call.yf.k + 1
        /\ call.yf.k > MAX_RETRIES =>
              last.result = None /\ last.calls = 1 + MAX_RETRIES

\* C13: get_sol_price rounds its timestamp to the nearest hour (minute >= 30
\* up, else down, a future hour moved back two hours) before the cache
\* lookup: every key of the cache is an hour boundary that is not in the
\* future, and a fetched price is stored under the rounded hour, so two
\* timestamps that round to the same hour share one entry.
C13_RoundedKey ==
    /\ \A k \in DOMAIN price_cache.dt : k[2] % Hour = 0 /\ k[2] <= Now
    /\ (call.op = "get_sol_price" /\ last.result # None) =>
          Has(price_cache.dt, DtStr(RoundToNearestHour(last.ts, Now)))

\* The lookups of PriceService
LookupOps ==
    {"get_sol_price", "get_token_price_in_sol", "get_token_price_in_usd"}

\* The native price a lookup of the hour of the last call can get: the
\* cached one, else the one the price history holds
NativeAvailable ==
    IF Has(last.dt_before, DtStr(last.ts))
    THEN last.dt_before[DtStr(last.ts)]
    ELSE IF call.yf.status = "data" /\ call.yf.k < MAX_RETRIES
    THEN call.yf.close
    ELSE None

\* A lookup whose source fails returns None and leaves its key uncached, and
\* a lookup that misses the cache asks a source
C14_FailedIsNotFound ==
    (call.op \in LookupOps /\ last.cached = None) =>
        /\ last.calls >= 1
        /\ (call.op = "get_sol_price" /\ call.yf.status = "error"
            /\ call.yf.k < MAX_RETRIES) =>
              last.result = None /\ CachedSol(price_cache, last.ts) = None
        /\ (call.op = "get_token_price_in_usd" /\ call.o.jup2 = None) =>
              /\ last.result = None
              /\ CachedTokenUsd(price_cache, last.token, last.ts) = None
        /\ (call.op = "get_token_price_in_sol" /\ call.o.pump = None
            /\ (call.o.jup = None \/ NativeAvailable = None)) =>
              /\ last.result = None
              /\ CachedTokenSol(price_cache, last.token, last.ts) = None

\* A lookup that returns None changes neither the cache nor the file
C14_FailedChangesNothing ==
    (last'.op \in LookupOps /\ last'.result = None) =>
        price_cache' = price_cache /\ cache_file' = cache_file

\* C14: a remote error in a price source during get_sol_price,
\* get_token_price_in_sol or get_token_price_in_usd is reported as None for
\* that call, nothing is raised, the cache is as it was before the call, and
\* a later lookup of the key asks the source again.
C14_ErrorsDegrade ==
    []C14_FailedIsNotFound /\ [][C14_FailedChangesNothing]_vars

\* C14 witness: a token-in-native lookup found no candlestick, got a quote,
\* met a remote error of the price history, and returned None while the
\* cache holds a token-in-USD price
C14_Witness ==
    /\ call.op = "get_token_price_in_sol"
    /\ call.o.pump = None /\ call.o.jup = 300
    /\ call.yf.status = "error" /\ call.yf.k = 1
    /\ last.cached = None /\ last.result = None
    /\ last.calls = 4
    /\ price_cache.token_usd # EmptyDict

\* What a lookup that missed the cache returns, and where it is stored
C15_SourceOrder ==
    /\ (call.op = "get_token_price_in_sol" /\ last.cached = None) =>
          /\ call.o.pump # None =>
                last.result = call.o.pump /\ last.calls = 1
          /\ (call.o.pump = None /\ call.o.jup # None
              /\ NativeAvailable # None) =>
                last.result = call.o.jup \div NativeAvailable
          /\ (call.o.pump = None
              /\ (call.o.jup = None \/ NativeAvailable = None)) =>
                last.result = None
          /\ CachedTokenSol(price_cache, last.token, last.ts) = last.result
    /\ (call.op = "get_token_price_in_usd" /\ last.cached = None) =>
          /\ last.result = call.o.jup2
          /\ last.calls = 1
          /\ CachedTokenUsd(price_cache, last.token, last.ts) = last.result

\* Each of the two token lookups leaves the cache of the other alone
C15_SeparateCaches ==
    /\ last'.op = "get_token_price_in_sol" =>
          price_cache'.token_usd = price_cache.token_usd
    /\ last'.op = "get_token_price_in_usd" =>
          /\ price_cache'.token_sol = price_cache.token_sol
          /\ price_cache'.dt = price_cache.dt

\* C15: on a cache miss get_token_price_in_sol returns the candlestick price
\* when that source has one; only else the quote divided by the native price
\* of the same time; None when the candlestick source fails and the quote or
\* the native price is missing.  A found price is cached under (token, t) in
\* token_sol, apart from token_usd, and get_token_price_in_usd asks the quote
\* source and nothing else.
C15_FixedSourceOrder == []C15_SourceOrder /\ [][C15_SeparateCaches]_vars

\* C15 witness: a lookup without candlestick price returned the quote 300
\* divided by the native price 150 it had to fetch, while the token-in-USD
\* cache holds 300 for the same key
C15_Witness ==
    /\ call.op = "get_token_price_in_sol"
    /\ call.o.pump = None /\ call.o.jup = 300
    /\ last.cached = None
    /\ last.result = 2
    /\ last.calls >= 3
    /\ CachedTokenSol(price_cache, last.token, last.ts) = 2
    /\ CachedTokenUsd(price_cache, last.token, last.ts) = 300

\* C16: _is_swap_transaction returns is_swap = true iff the programId of
\* some instruction is in SWAP_PROGRAMS or some log line contains an id of
\* SWAP_PROGRAMS, and (false, "") otherwise; instructions are looked at
\* before logs: when an instruction matches, the protocol is that of the
\* first matching instruction, whatever the logs hold.
C16_SwapDetection ==
    (ret.op = "_is_swap_transaction") =>
        LET instructions == call.transaction.instructions
            logs == call.transaction.logMessages
            hit(i) == InRegistry(instructions[i])
            logged == \E l \in DOMAIN logs, j \in DOMAIN SWAP_PROGRAMS :
                          InLog(SWAP_PROGRAMS[j].id, logs[l])
        IN  /\ ret.is_swap <=> ((\E i \in DOMAIN instructions : hit(i)) \/ logged)
            /\ ~ret.is_swap => ret.protocol = ""
            /\ \A i \in DOMAIN instructions :
                  (hit(i) /\ \A h \in 1..(i - 1) : ~hit(h))
                      => ret.protocol = ProtocolOf(instructions[i])
            /\ (ret.is_swap /\ ~\E i \in DOMAIN instructions : hit(i)) =>
                  \E l \in DOMAIN logs, j \in DOMAIN SWAP_PROGRAMS :
                      /\ InLog(SWAP_PROGRAMS[j].id, logs[l])
                      /\ ret.protocol = SWAP_PROGRAMS[j].protocol

\* C16 witness: the first matching instruction is Orca, after a system
\* instruction, while the logs name Jupiter only
C16_Witness ==
    /\ ret.op = "_is_swap_transaction"
    /\ call.transaction.instructions = <<SYSTEM_PROGRAM, ORCA>>
    /\ call.transaction.logMessages = <<"Program " \o JUPITER \o " invoke [1]">>
    /\ ret.is_swap /\ ret.protocol = "Orca"

\* What a snapshot says of a mint: the last of its balances naming the mint
MintsOf(snapshot) ==
    {snapshot[i].mint : i \in DOMAIN snapshot} \ {NoMint}
LastOf(snapshot, mint) ==
    snapshot[CHOOSE i \in DOMAIN snapshot :
                 /\ snapshot[i].mint = mint
                 /\ \A j \in DOMAIN snapshot : snapshot[j].mint = mint => j <= i]
SnapshotAmount(snapshot, mint) ==
    IF mint \in MintsOf(snapshot) THEN AmountOf(LastOf(snapshot, mint)) ELSE 0
SnapshotSymbol(snapshot, mint) ==
    IF LastOf(snapshot, mint).symbol = "" THEN Prefix8(mint)
    ELSE LastOf(snapshot, mint).symbol
Delta(transaction, mint) ==
    SnapshotAmount(transaction.postTokenBalances, mint)
        - SnapshotAmount(transaction.preTokenBalances, mint)
\* The mints of either snapshot whose balance moved by more than the noise
Moved(transaction) ==
    {m \in MintsOf(transaction.preTokenBalances)
               \cup MintsOf(transaction.postTokenBalances) :
        Abs(Delta(transaction, m)) > NOISE}
\* The mints of either snapshot that moved by more than the noise as the
\* floats of the two amounts tell it
MovedAsFloats(transaction) ==
    {m \in MintsOf(transaction.preTokenBalances)
               \cup MintsOf(transaction.postTokenBalances) :
        AboveNoise(SnapshotAmount(transaction.preTokenBalances, m),
                   SnapshotAmount(transaction.postTokenBalances, m))}
EntriesOf(list) == {list[i] : i \in DOMAIN list}

\* C17: _analyze_token_changes lists a token only when its balance moved by
\* more than 0.000001, a mint absent from a snapshot counting as 0: every
\* entry carries the move of a token that moved by more than the noise, no
\* more entries than moved tokens are listed, and identical snapshots give
\* two empty lists.
C17_NoiseFiltered ==
    (ret.op = "_analyze_token_changes") =>
        /\ \A e \in EntriesOf(ret.tokens_in) :
              \E m \in Moved(call.transaction) :
                  Delta(call.transaction, m) = e.amount
        /\ \A e \in EntriesOf(ret.tokens_out) :
              \E m \in Moved(call.transaction) :
                  Delta(call.transaction, m) = 0 - e.amount
        /\ Len(ret.tokens_in) + Len(ret.tokens_out)
              <= Cardinality(Moved(call.transaction))
        /\ (call.transaction.preTokenBalances = call.transaction.postTokenBalances)
              => (ret.tokens_in = << >> /\ ret.tokens_out = << >>)

\* What the function keeps of C17: every entry carries the move of a token
\* that moved by 0.000001 or more, a token that moved by less is in neither
\* list, one that moved by more is listed, and identical snapshots give two
\* empty lists; a move of exactly 0.000001 is listed or not as the floats of
\* the two amounts fall.
C17_NoiseFilteredAsFloats ==
    (ret.op = "_analyze_token_changes") =>
        /\ Moved(call.transaction) \subseteq MovedAsFloats(call.transaction)
        /\ \A m \in MovedAsFloats(call.transaction) :
              Abs(Delta(call.transaction, m)) >= NOISE
        /\ \A e \in EntriesOf(ret.tokens_in) :
              \E m \in MovedAsFloats(call.transaction) :
                  Delta(call.transaction, m) = e.amount
        /\ \A e \in EntriesOf(ret.tokens_out) :
              \E m \in MovedAsFloats(call.transaction) :
                  Delta(call.transaction, m) = 0 - e.amount
        /\ Len(ret.tokens_in) + Len(ret.tokens_out)
              = Cardinality(MovedAsFloats(call.transaction))
        /\ (call.transaction.preTokenBalances = call.transaction.postTokenBalances)
              => (ret.tokens_in = << >> /\ ret.tokens_out = << >>)

\* A balance went from 0.000002 to 0.000003 and is among the inflows, one
\* that went from 0.000001 to 0.000002 is in neither list
C17_ListedAtThreshold ==
    /\ ret.op = "_analyze_token_changes"
    /\ SnapshotAmount(call.transaction.preTokenBalances, BONK_MINT) = 2
    /\ SnapshotAmount(call.transaction.postTokenBalances, BONK_MINT) = 3
    /\ SnapshotAmount(call.transaction.preTokenBalances, WIF_MINT) = 1
    /\ SnapshotAmount(call.transaction.postTokenBalances, WIF_MINT) = 2
    /\ Len(ret.tokens_in) = 1 /\ ret.tokens_in[1].amount = NOISE
    /\ ret.tokens_out = << >>

\* C18: every mint of either snapshot that moved by more than the noise
\* gets exactly one entry, among the inflows with the delta when it grew and
\* among the outflows with the absolute delta when it shrank; the symbol of
\* the entry is the one of the post snapshot when the mint is there, else
\* the one of the pre snapshot, a snapshot symbol being the first 8
\* characters of the mint only when the snapshot gives none.
C18_EntryPerMovedToken ==
    (ret.op = "_analyze_token_changes") =>
        LET t == call.transaction
            symbol(m) == IF m \in MintsOf(t.postTokenBalances)
                         THEN SnapshotSymbol(t.postTokenBalances, m)
                         ELSE SnapshotSymbol(t.preTokenBalances, m)
            entry(m) == [amount |-> Abs(Delta(t, m)), symbol |-> symbol(m)]
        IN  /\ Len(ret.tokens_in) + Len(ret.tokens_out) = Cardinality(Moved(t))
            /\ \A m \in Moved(t) :
                  IF Delta(t, m) > 0
                  THEN entry(m) \in EntriesOf(ret.tokens_in)
                  ELSE entry(m) \in EntriesOf(ret.tokens_out)

\* The part of C18 that the function keeps: one entry per listed mint, in
\* the list of its direction, with the absolute delta as amount
C18_AmountPerMovedToken ==
    (ret.op = "_analyze_token_changes") =>
        LET t == call.transaction
        IN  /\ Len(ret.tokens_in) + Len(ret.tokens_out) = Cardinality(MovedAsFloats(t))
            /\ \A m \in MovedAsFloats(t) :
                  IF Delta(t, m) > 0
                  THEN \E e \in EntriesOf(ret.tokens_in) :
                          e.amount = Delta(t, m)
                  ELSE \E e \in EntriesOf(ret.tokens_out) :
                          e.amount = 0 - Delta(t, m)

\* C19 (one transaction): _process_swap returns a swap iff the transaction
\* is classified as a swap and at least one token moved by more than the
\* noise as the floats tell it, which is when a list is not empty; the swap
\* carries the signature and the blockTime of the listing entry it was
\* fetched for and the protocol of the classification.
C19_SwapIffMaterial ==
    (ret.op = "_process_swap") =>
        /\ ret.found <=> (/\ IsSwapTransaction(call.transaction).is_swap
                          /\ MovedAsFloats(call.transaction) # {})
        /\ ret.found =>
              /\ ret.signature = call.sig_info.signature
              /\ ret.timestamp = call.sig_info.blockTime
              /\ ret.protocol = IsSwapTransaction(call.transaction).protocol
              /\ Len(ret.tokens_in) + Len(ret.tokens_out) >= 1

\* C19: a fetched transaction has a swap in swaps_data iff it is classified
\* as a swap and at least one token moved by more than the noise as the
\* floats tell it, which is when a list is not empty; it has at most one,
\* carrying its signature, the blockTime of its listing entry and
\* the protocol of its classification; so the swaps of a result are never
\* more than the transactions counted in it.
C19_SwapPerTransaction ==
    LET examined == {all_transactions[i] : i \in DOMAIN all_transactions}
        swapped(sig) == \E i \in DOMAIN swaps_data : swaps_data[i].signature = sig
    IN  /\ \A sig \in examined :
              swapped(sig) <=> (/\ IsSwapTransaction(fetched[sig]).is_swap
                                /\ MovedAsFloats(fetched[sig]) # {})
        /\ \A i, j \in DOMAIN swaps_data :
              swaps_data[i].signature = swaps_data[j].signature => i = j
        /\ \A i \in DOMAIN swaps_data :
              /\ swaps_data[i].signature \in examined
              /\ swaps_data[i].timestamp = SigInfo(swaps_data[i].signature).blockTime
              /\ swaps_data[i].protocol
                    = IsSwapTransaction(fetched[swaps_data[i].signature]).protocol
        /\ Len(swaps_data) <= Len(all_transactions)
        /\ an_result.status = "ok" =>
              /\ an_result.swaps = swaps_data
              /\ Len(an_result.swaps) <= an_result.total_transactions

\* C19 witness: an analysis that returned after fetching a transaction of a
\* swap program that moved nothing and a swap that moved a token, with the
\* second one alone among the swaps
C19_Witness ==
    /\ an_pc = "done" /\ an_result.status = "ok"
    /\ Has(fetched, 1) /\ fetched[1] = EmptySwap
    /\ Has(fetched, EARLY_DETECTION_COUNT + 1)
    /\ fetched[EARLY_DETECTION_COUNT + 1] = MaterialSwap
    /\ Len(an_result.swaps) = 1
    /\ an_result.swaps[1].signature = EARLY_DETECTION_COUNT + 1
    /\ an_result.total_transactions > 1

\* C20: the aggregates calculate_metrics returns are those of the final
\* ledger: gross_profit is the sum of realized plus the sum of unrealized,
\* total_invested the sum of usd_invested, total_volume the sum of
\* usd_invested + usd_withdrawn, win_rate 100 * winners / tokens traded (a
\* winner has usd_withdrawn + unrealized > usd_invested), total_roi
\* 100 * gross_profit / total_invested; win_rate is 0 without tokens,
\* total_roi is 0 when total_invested is 0, and win_rate is within 0..100.
C20_Aggregates ==
    (mc_pc = "idle" /\ mc_result.status = "returned") =>
        LET m == mc_result.metrics
            n == Len(token_metrics)
            realized == SumSeq([i \in DOMAIN token_metrics |->
                                   token_metrics[i].realized_pnl])
            unrealized == SumSeq([i \in DOMAIN token_metrics |->
                                     token_metrics[i].unrealized_pnl])
            invested == SumSeq([i \in DOMAIN token_metrics |->
                                   token_metrics[i].usd_invested])
            volume == SumSeq([i \in DOMAIN token_metrics |->
                                 token_metrics[i].usd_invested
                                     + token_metrics[i].usd_withdrawn])
            winners == Cardinality({i \in DOMAIN token_metrics :
                           token_metrics[i].usd_withdrawn
                               + token_metrics[i].unrealized_pnl
                             > token_metrics[i].usd_invested})
        IN  /\ m.gross_profit = realized + unrealized
            /\ m.total_invested = invested
            /\ m.total_volume = volume
            /\ m.win_rate.den > 0 /\ m.total_roi.den > 0
            /\ m.win_rate.num * n = 100 * winners * m.win_rate.den
            /\ n = 0 => m.win_rate.num = 0
            /\ m.win_rate.num >= 0 /\ m.win_rate.num <= 100 * m.win_rate.den
            /\ invested = 0 => m.total_roi.num = 0
            /\ invested > 0 =>
                  m.total_roi.num * invested = 100 * m.gross_profit * m.total_roi.den

\* C20 witness: calculate_metrics returned over a ledger of two tokens, one
\* of them a winner, with money invested and a realized profit that is not
\* the cash flow of the ledger
C20_Witness ==
    /\ mc_pc = "idle" /\ mc_result.status = "returned"
    /\ Len(token_metrics) = 2
    /\ mc_result.metrics.winning_trades = 1
    /\ mc_result.metrics.total_invested > 0
    /\ mc_result.metrics.gross_profit
          # SumSeq([i \in DOMAIN token_metrics |->
                       token_metrics[i].usd_withdrawn
                           + token_metrics[i].unrealized_pnl
                           - token_metrics[i].usd_invested])

FeatureOf(features, name) ==
    (CHOOSE i \in DOMAIN features : features[i].name = name)

\* C21: for a non-empty window _extract_features returns 13 values, one per
\* canonical name and in the canonical order; for a window of one
\* transaction std_fee, avg_time_between_tx, time_variance,
\* avg_time_between_account_tx, instruction_complexity_score,
\* slot_variation and signature_entropy are 0.
C21_FeatureVector ==
    (ret.op = "_extract_features") =>
        /\ ~ret.raised
        /\ Len(ret.features) = 13
        /\ \A i \in 1..13 : ret.features[i].name = OrderedFeatureNames[i]
        /\ Len(call.transactions) = 1 =>
              \A name \in {"std_fee", "avg_time_between_tx", "time_variance",
                           "avg_time_between_account_tx",
                           "instruction_complexity_score", "slot_variation",
                           "signature_entropy"} :
                  ret.features[FeatureOf(ret.features, name)].value.num = 0

\* The part of C21 that holds: 13 values in the canonical order, and the
\* statistics of a single transaction other than signature_entropy are 0
C21_VectorShape ==
    (ret.op = "_extract_features") =>
        /\ ~ret.raised
        /\ Len(ret.features) = 13
        /\ \A i \in 1..13 : ret.features[i].name = OrderedFeatureNames[i]
        /\ Len(call.transactions) = 1 =>
              \A name \in {"std_fee", "avg_time_between_tx", "time_variance",
                           "avg_time_between_account_tx",
                           "instruction_complexity_score", "slot_variation"} :
                  ret.features[FeatureOf(ret.features, name)].value.num = 0

\* C22: when the feature extraction of a window raises, the bot-detection
\* step of the run fails visibly: the result of analyze_wallet is marked as
\* an error and never reports a bot probability of 0 or an early detection
\* that did not trigger as if the window had been scored.
C22_ExtractionFailureSurfaced ==
    (/\ an_pc = "done"
     /\ \/ early.evaluated /\ ~early.ok
        \/ final.evaluated /\ ~final.ok)
        => an_result.status = "error"

\* C23: without a classifier a run is degraded, not failed: early detection
\* never triggers, the result reports bot_probability 0 and is_bot false,
\* every listed signature is fetched, and process_address runs the PnL
\* accounting over the swaps of the whole window.
C23_DegradedWithoutModel ==
    ~has_model =>
        /\ ~early_detection_triggered /\ ~early.evaluated /\ ~final.evaluated
        /\ (an_pc = "done" /\ an_result.status = "ok") =>
              /\ an_result.bot_probability = 0
              /\ ~an_result.triggered
              /\ Len(fetch_log) = Len(signatures)
              /\ an_result.total_transactions = Len(all_transactions)
              /\ an_result.swaps = swaps_data
        /\ processing.status \in {"detailed", "raised", "skipped"} =>
              /\ ~processing.behavior_metrics.is_bot
              /\ processing.behavior_metrics.bot_probability = 0
              /\ processing.pnl_run
              /\ processing.behavior_metrics.total_swaps = Len(swaps_data)

\* C23 witness: a run without classifier over more transactions than the
\* early-detection count, stored with its PnL metrics
C23_Witness ==
    /\ ~has_model
    /\ processing.status = "detailed"
    /\ Len(all_transactions) > EARLY_DETECTION_COUNT
    /\ processing.has_trade_metrics
    /\ Len(swaps_data) > 0

\* C24: two consecutive requests of one analyzer are at least min_interval
\* apart, whether the earlier one succeeded or failed.
C24_MinInterval ==
    \A i \in 1..(Len(rpc.sent) - 1) :
        rpc.sent[i + 1].at - rpc.sent[i].at >= MIN_INTERVAL

\* What the throttle does enforce: the interval after a request that
\* succeeded
C24_MinIntervalAfterSuccess ==
    \A i \in 1..(Len(rpc.sent) - 1) :
        rpc.sent[i].ok => rpc.sent[i + 1].at - rpc.sent[i].at >= MIN_INTERVAL

\* C25: within one calculate_metrics run usd_invested and usd_withdrawn of
\* every symbol never decrease from one processed swap to the next; the
\* swap touching a symbol leaves an entry for it, and no entry is removed
\* before the run ends; entries disappear only in the clear that starts a new
\* calculate_metrics call, so the ledger and the aggregates of a run are those
\* of the swaps of that run alone.
C25_LedgerPerRun ==
    [][/\ mc_pc = "swaps" =>
            \A i \in DOMAIN token_metrics :
                \E j \in DOMAIN token_metrics' :
                    /\ token_metrics'[j].symbol = token_metrics[i].symbol
                    /\ token_metrics'[j].usd_invested
                           >= token_metrics[i].usd_invested
                    /\ token_metrics'[j].usd_withdrawn
                           >= token_metrics[i].usd_withdrawn
       /\ (mc_pc = "swaps" /\ mc_count' = mc_count + 1) =>
            \A k \in DOMAIN last_swap'.legs :
                last_swap'.legs[k].symbol \in SymbolsOf(token_metrics')
       /\ ~(SymbolsOf(token_metrics) \subseteq SymbolsOf(token_metrics')) =>
            /\ mc_pc = "idle" /\ mc_pc' = "swaps"
            /\ token_metrics' = << >>
       /\ (mc_pc' = "swaps" \/ mc_result'.status = "returned") =>
            \A s \in LegSymbols :
                /\ FieldOf(token_metrics', s, "usd_invested") = applied'[s].vin
                /\ FieldOf(token_metrics', s, "usd_withdrawn")
                       = applied'[s].vout
                /\ FieldOf(token_metrics', s, "balance")
                       = applied'[s].amt_out - applied'[s].amt_in
       /\ mc_result'.status = "returned" =>
            mc_result'.metrics = TotalMetrics(token_metrics')
      ]_vars

\* C25 witness: a later run on a calculator whose earlier run valued a TOKX
\* leg; after its first swap the ledger holds the wSOL entry of that swap and
\* no TOKX entry
C25_Witness ==
    /\ mc_pc = "swaps"
    /\ mc_count = 1
    /\ last_swap.called
    /\ \/ last_swap.cache.token_sol # EmptyDict
       \/ last_swap.cache.token_usd # EmptyDict
    /\ SymbolsOf(token_metrics) = {WSOL}
    /\ FieldOf(token_metrics, WSOL, "usd_invested") > 0

\* What _process_token_swap makes of the leg e in a swap dated 2 * Hour with
\* SOL at 150, the token sources answering nothing
LegValue(e) ==
    ProcessTokenSwapOp([tm |-> << >>, cache |-> NewCache,
                        file |-> [state |-> "absent", content |-> NewCache],
                        legs |-> << >>],
                       e, TRUE, 2 * Hour, 150, NoOracle,
                       [k |-> 0, status |-> "data", close |-> 150,
                        writable |-> TRUE]).legs[1].value

\* C26: every leg _analyze_token_changes produces from a move in a mint of
\* SOLANA_ADDRESSES is recognised as native by _process_token_swap and valued
\* as amount * SOL price, whether the snapshot supplies a symbol or not.
C26_NativeAgreement ==
    (ret.op = "_analyze_token_changes") =>
        \A m \in Moved(call.transaction) :
            Identifier(m) \in SOLANA_ADDRESSES =>
                \E e \in EntriesOf(ret.tokens_in) \cup EntriesOf(ret.tokens_out) :
                    /\ e.amount = Abs(Delta(call.transaction, m))
                    /\ e.symbol \in SOLANA_ADDRESSES
                    /\ LegValue(e) = e.amount * 150

\* What the two components do with a native mint: the leg carries the
\* supplied symbol or the first 8 characters of the mint, neither of which
\* is in SOLANA_ADDRESSES, and the leg is priced as an ordinary token
C26_NativeLegUnrecognised ==
    (ret.op = "_analyze_token_changes") =>
        \A m \in Moved(call.transaction) :
            Identifier(m) \in SOLANA_ADDRESSES =>
                \A e \in EntriesOf(ret.tokens_in) \cup EntriesOf(ret.tokens_out) :
                    /\ e.symbol \in {"So111111", "SOL"}
                    /\ e.symbol \notin SOLANA_ADDRESSES
                    /\ LegValue(e) = None

\* A native mint moved and a leg came out of it
C26_NativeMoved ==
    /\ ret.op = "_analyze_token_changes"
    /\ Identifier(WSOL_MINT) = WSOL
    /\ WSOL_MINT \in Moved(call.transaction)
    /\ Len(ret.tokens_in) = 1

\* C27: in every result of analyze_wallet, early_detection.triggered = true
\* implies that exactly EARLY_DETECTION_COUNT transactions were collected and
\* that the reported bot_probability is the early score, which is >=
\* BOT_THRESHOLD; the early evaluation happens at most once per run, on a
\* window of exactly EARLY_DETECTION_COUNT transactions, and never while
\* fewer have been fetched.
C27_TriggeredResult ==
    /\ []((an_pc = "done" /\ an_result.triggered) =>
            /\ an_result.status = "ok"
            /\ an_result.total_transactions = EARLY_DETECTION_COUNT
            /\ Len(all_transactions) = EARLY_DETECTION_COUNT
            /\ early.evaluated /\ early.ok
            /\ an_result.bot_probability = early.score
            /\ an_result.bot_probability >= BOT_THRESHOLD)
    /\ [](early.evaluated =>
            /\ Len(early.window) = EARLY_DETECTION_COUNT
            /\ Len(all_transactions) >= EARLY_DETECTION_COUNT)
    /\ [][early.evaluated => early' = early]_vars

\* C27 witness: a run that lost one getTransaction call triggered on its
\* 80th collected transaction, the 81st attempted, with the score 75
C27_Witness ==
    /\ an_pc = "done"
    /\ an_result.triggered
    /\ failed # {}
    /\ Len(fetch_log) = EARLY_DETECTION_COUNT + 1
    /\ an_result.total_transactions = EARLY_DETECTION_COUNT
    /\ an_result.bot_probability = BOT_THRESHOLD

\* The timestamps of the swaps of `swaps` that have a leg of `symbol`
TouchingTimes(swaps, symbol) ==
    {swaps[i].timestamp :
        i \in {j \in DOMAIN swaps :
                 \E e \in EntriesOf(swaps[j].tokens_in)
                            \cup EntriesOf(swaps[j].tokens_out) :
                     e.symbol = symbol}}

\* C28: when process_address feeds calculate_metrics the swaps in the order
\* analyze_wallet collected them, every ledger entry has as first_trade_date
\* the earliest and as last_trade_date the latest timestamp among the swaps
\* touching its symbol, so first_trade_date <= last_trade_date.
C28_TradeDatesOrdered ==
    (processing.status = "detailed") =>
        \A i \in DOMAIN processing.token_summary :
            LET e == processing.token_summary[i]
                times == TouchingTimes(an_result.swaps, e.symbol)
            IN  /\ e.first_trade_date <= e.last_trade_date
                /\ \A t \in times : e.first_trade_date <= t
                /\ \A t \in times : t <= e.last_trade_date
                /\ e.first_trade_date \in times
                /\ e.last_trade_date \in times

\* What the ledger holds instead: first_trade_date is the timestamp of the
\* first swap fed that touches the symbol, last_trade_date of the last one fed
C28_TradeDatesInFeedOrder ==
    (processing.status = "detailed") =>
        \A i \in DOMAIN processing.token_summary :
            LET e == processing.token_summary[i]
                fed == SelectSeq(an_result.swaps,
                                 LAMBDA swap :
                                     swap.timestamp
                                         \in TouchingTimes(<<swap>>, e.symbol))
            IN  /\ fed # << >>
                /\ e.first_trade_date = fed[1].timestamp
                /\ e.last_trade_date = fed[Len(fed)].timestamp

\* C29: the resolved prices being strictly positive, after any sequence of
\* process_swap calls every token with balance > 0 has usd_withdrawn > 0 and
\* every token that was only ever received (tokens_in) has balance < 0; the
\* state usd_invested > 0, usd_withdrawn = 0, balance > 0 is never reached,
\* and a token bought and never sold ends with realized PnL 0 and unrealized
\* PnL 0.
C29_OpenPositionUnreachable ==
    \A i \in DOMAIN token_metrics :
        LET e == token_metrics[i]
            only_received == applied[e.symbol].amt_in > 0
                             /\ applied[e.symbol].amt_out = 0
        IN  /\ e.balance > 0 => e.usd_withdrawn > 0
            /\ only_received => e.balance < 0 /\ e.usd_invested > 0
            /\ ~(e.usd_invested > 0 /\ e.usd_withdrawn = 0 /\ e.balance > 0)
            /\ (only_received /\ mc_pc = "idle"
                /\ mc_result.status = "returned")
                  => e.realized_pnl = 0 /\ e.unrealized_pnl = 0

\* C29 witness: calculate_metrics returned a ledger in which TOKX was only
\* received, for a positive value, and wSOL only given
C29_Witness ==
    /\ mc_pc = "idle"
    /\ mc_result.status = "returned"
    /\ applied["TOKX"].amt_in > 0 /\ applied["TOKX"].amt_out = 0
    /\ FieldOf(token_metrics, "TOKX", "usd_invested") > 0
    /\ FieldOf(token_metrics, "TOKX", "balance") < 0
    /\ FieldOf(token_metrics, "TOKX", "realized_pnl") = 0
    /\ FieldOf(token_metrics, WSOL, "balance") > 0
    /\ FieldOf(token_metrics, WSOL, "usd_withdrawn") > 0

\* C30: process_address runs the PnL accounting over the collected swaps iff
\* analyze_wallet returned no error and it is not the case that
\* bot_probability >= BOT_THRESHOLD and bot_probability >
\* HIGH_PROBABILITY_BOT_THRESHOLD: an early-stopped run scored between the
\* two thresholds gets its ledger computed over the partial window, a bot of
\* high probability has only its behaviour metrics stored, and an errored
\* analysis stores nothing.
C30_PnlRunRule ==
    processing.status \in {"error", "skipped", "detailed", "raised"} =>
        /\ an_pc = "done"
        /\ processing.pnl_run <=>
              /\ an_result.status # "error"
              /\ ~(/\ an_result.bot_probability >= BOT_THRESHOLD
                   /\ an_result.bot_probability
                         > HIGH_PROBABILITY_BOT_THRESHOLD)
        /\ (/\ an_result.status = "ok" /\ an_result.triggered
            /\ an_result.bot_probability <= HIGH_PROBABILITY_BOT_THRESHOLD) =>
              /\ processing.pnl_run
              /\ processing.status = "detailed" =>
                    /\ processing.has_trade_metrics
                    /\ processing.db_committed = {"behavior", "stats"}
                    /\ processing.analysis_saved
                    /\ processing.token_summary = token_metrics
                    /\ processing.trade_metrics.total_trades
                          = SumOver(token_metrics, 1, "trade_count")
        /\ (/\ an_result.status = "ok"
            /\ an_result.bot_probability > HIGH_PROBABILITY_BOT_THRESHOLD) =>
              /\ ~processing.pnl_run
              /\ ~processing.has_trade_metrics
              /\ processing.token_summary = << >>
              /\ processing.db_committed \subseteq {"behavior"}
              /\ processing.behavior_metrics = AnalyzeBehavior(an_result)
              /\ processing.analysis_saved =>
                    /\ processing.status = "skipped"
                    /\ processing.db_committed = {"behavior"}
        /\ an_result.status = "error" =>
              /\ processing.status = "error"
              /\ processing.db_committed = {}
              /\ ~processing.analysis_saved

\* C30 witness: a run stopped early at the score 75 was stored with the
\* ledger of the swap of its 80 transactions
C30_Witness ==
    /\ processing.status = "detailed"
    /\ an_result.triggered
    /\ an_result.bot_probability = BOT_THRESHOLD
    /\ Len(all_transactions) = EARLY_DETECTION_COUNT
    /\ Len(signatures) > EARLY_DETECTION_COUNT
    /\ processing.behavior_metrics.is_bot
    /\ processing.pnl_run
    /\ processing.db_committed = {"behavior", "stats"}
    /\ processing.analysis_saved
    /\ Len(processing.token_summary) = 1

====
